---- MODULE Spec2Model ----
(***************************************************************************)
(* State-machine model of tasklattice's LocalRunner                        *)
(* (src/src/tasklattice/runners/local.py): client threads calling submit,  *)
(* cancel, status, wait and attach, the single monitor thread, the child   *)
(* processes, the per-run run.json documents, the runner lock and the      *)
(* registry of per-run locks.                                              *)
(*                                                                         *)
(* Every read-modify-write of run.json in local.py ends with a call of     *)
(* _append_event(run_dir, lock, ...) made while the caller still holds     *)
(* `lock`; _append_event acquires `lock` again.  The variable lockKind     *)
(* fixes, for a whole behaviour, what that second acquisition does:        *)
(*   "plain"     threading.Lock, as constructed by _get_run_lock: the      *)
(*               second acquisition by the holder never succeeds;          *)
(*   "reentrant" the second acquisition by the holder succeeds.            *)
(* Init admits both, so every property is checked over the behaviours of   *)
(* the code as written and over the behaviours the code has once the       *)
(* nested acquisition is let through.                                      *)
(*                                                                         *)
(* Several specifications share the actions:                               *)
(*   Spec       one run directory, every operation of the runner;          *)
(*   SpecQueue  two run directories and one more handle, the operations    *)
(*              that touch the pending FIFO and the active map (submit,    *)
(*              cancel, the monitor), no time limits, and processes that   *)
(*              exit on their own do so with code 0;                       *)
(*   SpecFault  spawns that raise, and close();                            *)
(*   SpecLive, SpecStop  submit and the monitor under fair scheduling,     *)
(*              without and with close();                                  *)
(*   SpecReject submit with a LaunchSpec that fails validation;            *)
(*   SpecWide   a runner with room for one more process.                   *)
(***************************************************************************)
EXTENDS Integers, Sequences, FiniteSets, TLC

(* ------------------------------ bounds --------------------------------- *)

\* handles the clients may create under Spec (submit and attach together)
MaxHandles == 2

\* handles the clients may create under SpecQueue
MaxHandlesQ == 3

\* LocalRunner(max_parallel=N): the resolved concurrency cap, line 318
MaxParallel == 1

(* ------------------------- program constants --------------------------- *)

Dirs == {"ra", "rb"}

\* the run directory the clients of Spec work on
SpecDirs == {"ra"}
Clients == {"c1"}
Mon == "mon"
Threads == Clients \cup {Mon}
Handles == 1..(IF MaxHandles > MaxHandlesQ THEN MaxHandles ELSE MaxHandlesQ)

Terminal == {"succeeded", "failed", "cancelled", "timed_out"}

\* return codes: -1 stands for JSON null / Python None
NoRc == -1
ExitCodes == {0, 1}

VARIABLES
  lockKind,    \* "plain" | "reentrant": semantics of the nested acquisition
  maxParallel, \* LocalRunner._max_parallel, the resolved concurrency cap
  doc,         \* run.json of each run directory
  registry,    \* LocalRunner._locks: dir -> lock generation (0: no entry)
  lockGen,     \* number of Lock objects created so far for each dir
  lockHeld,    \* set of <<dir, generation, thread>>: who holds which Lock
  activeLock,  \* holder of LocalRunner._active_lock ("none" when free)
  pending,     \* LocalRunner._pending: sequence of handles (one item each)
  active,      \* LocalRunner._active: sequence of [d, h] in dict order
  hs,          \* the _LocalRunHandle / _RunRecord / _PendingItem fields
  proc,        \* the child process spawned for each handle
  nh,          \* handles allocated so far
  pc,          \* position of every thread
  loc,         \* locals of every thread
  mon,         \* locals of the monitor pass
  stopEvt,     \* LocalRunner._stop_event is set
  hist,        \* history, read by the properties only
  mat,         \* one call of Materializer.run and the directories it touches
  aw,          \* one atomic write of a file and its concurrent readers
  calc         \* arguments and results of the pure functions

\* the state of the runner
runnerVars == <<lockKind, maxParallel, doc, registry, lockGen, lockHeld, activeLock,
                pending, active, hs, proc, nh, pc, loc, mon, stopEvt, hist>>

\* the state of the library code outside the runner
libVars == <<mat, aw, calc>>

\* the library code is not in use
LibIdle == mat = "off" /\ aw = "off" /\ calc = "off"

vars == <<runnerVars, libVars>>

(* ------------------------------ run.json -------------------------------- *)

\* a missing or unreadable run.json: _json_load returns None
NoDoc ==
  [state |-> "none", attempt |-> 0, started |-> FALSE, finished |-> FALSE,
   hasRc |-> FALSE, rc |-> NoRc, pid |-> 0, ev |-> "none"]

\* the payload submit writes, lines 392-434
QueuedPayload(prior) ==
  [state |-> "queued", attempt |-> prior.attempt + 1, started |-> FALSE,
   finished |-> FALSE, hasRc |-> TRUE, rc |-> NoRc, pid |-> 0, ev |-> "none"]

\* _append_event: load, append {state, reason} to events, write back.
\* The model keeps the state of the last event.
AppendEvent(dc, st) == [dc EXCEPT !.ev = st]

(* ------------------------------- locks ---------------------------------- *)

LockFree(d, g) == ~ \E t \in Threads : <<d, g, t>> \in lockHeld

Holds(t, d, g) == <<d, g, t>> \in lockHeld

\* `with lock:` by thread t
CanAcquire(t, d, g) ==
  LockFree(d, g) \/ (lockKind = "reentrant" /\ Holds(t, d, g))

\* _get_run_lock: the registered Lock, or a new one
RunLockGen(d) == IF registry[d] = 0 THEN lockGen[d] + 1 ELSE registry[d]

GetRunLock(d) ==
  /\ registry' = [registry EXCEPT ![d] = RunLockGen(d)]
  /\ lockGen' = IF RunLockGen(d) > lockGen[d]
                THEN [lockGen EXCEPT ![d] = @ + 1] ELSE lockGen

\* thread t is inside a read-modify-write of d's run.json
InUpdate(t, d) == \E g \in 1..lockGen[d] : Holds(t, d, g)

(* ------------------------------ handles --------------------------------- *)

\* d: run_dir; pub: returned to the caller; hasProc: _proc is not None;
\* cancelReq, timedOut, finished: _cancel_requested, _timed_out,
\* _finished_evt; lk: the Lock of the pending item / record; tl: the spec
\* has time_limit_s; dl: deadline_monotonic is not None; exp: it has passed
NoHandle ==
  [d |-> "ra", pub |-> FALSE, hasProc |-> FALSE, cancelReq |-> FALSE,
   timedOut |-> FALSE, finished |-> FALSE, lk |-> 0, tl |-> FALSE,
   dl |-> FALSE, exp |-> FALSE]

\* st: "none" | "alive" | "zombie" (exited, not reaped) | "reaped";
\* sig: "none" | "term" (SIGTERM honoured) | "term_ign" | "kill"
NoProc == [st |-> "none", rc |-> NoRc, sig |-> "none"]

\* op: the operation in progress; lk, item: lock and pending item it works
\* on; tmo: it was given a timeout (submit: a time limit); again, term: at
\* the call of cancel() the handle had a cancel request already, run.json
\* was terminal already; cont, nest, st: the caller of
\* _finalize_unknown_exit, whether it holds the lock, the state to write
\* (st is also the value status() and wait() return); pid: external_id
\* read; wrote: _finalize_unknown_exit passed the early return of line 585
NoLoc == [op |-> "none", d |-> "ra", h |-> 0, lk |-> 0, item |-> 0,
          tmo |-> FALSE, again |-> FALSE, term |-> FALSE, cont |-> "none",
          nest |-> FALSE, st |-> "none", pid |-> 0, wrote |-> FALSE]

NoMon == [items |-> <<>>, now |-> {}, remove |-> <<>>, final |-> "none",
          rc |-> NoRc, sto |-> FALSE, scr |-> FALSE, timeout |-> FALSE,
          woken |-> FALSE]

\* enqNo: order of entry into the pending FIFO; cq: handles whose cancel
\* found them in the FIFO; tsig: timeout signals sent; early: the process
\* exited before its deadline
NoHist ==
  [enqNo |-> [h \in Handles |-> 0], nenq |-> 0, cq |-> {},
   tsig |-> [h \in Handles |-> 0],
   early |-> [h \in Handles |-> FALSE]]

(* ------------------------- active map, capacity ------------------------- *)

ActiveDirs == {active[i].d : i \in 1..Len(active)}

ActiveIdx(d) == CHOOSE i \in 1..Len(active) : active[i].d = d

\* self._active.get(run_dir): the handle of the record, 0 for None
ActiveGet(d) == IF d \in ActiveDirs THEN active[ActiveIdx(d)].h ELSE 0

\* self._active[run_dir] = rec (a dict keeps the position of an existing key)
ActivePut(d, h) ==
  IF d \in ActiveDirs
  THEN [active EXCEPT ![ActiveIdx(d)] = [d |-> d, h |-> h]]
  ELSE Append(active, [d |-> d, h |-> h])

RECURSIVE SeqWithout(_, _)
\* self._active.pop(rd, None) for every rd of to_remove
SeqWithout(s, ds) ==
  IF s = <<>> THEN <<>>
  ELSE IF Head(s).d \in ds THEN SeqWithout(Tail(s), ds)
       ELSE <<Head(s)>> \o SeqWithout(Tail(s), ds)

RECURSIVE SeqElems(_)
SeqElems(s) == IF s = <<>> THEN {} ELSE {Head(s)} \cup SeqElems(Tail(s))

SeqRemoveAt(q, i) == SubSeq(q, 1, i - 1) \o SubSeq(q, i + 1, Len(q))

HasCapacityOffByOne == Len(active) <= maxParallel

\* _has_capacity_locked, lines 764-767
HasCapacity == Len(active) < maxParallel

NotifyLost(m) == m

\* notify_all on the condition: wakes the monitor only if it is waiting
Notify(m) == [m EXCEPT !.woken = (@ \/ pc[Mon] = "mon_wait")]

(* ------------------------------- Init ----------------------------------- *)

RunnerInit ==
  /\ lockKind \in {"plain", "reentrant"}
  /\ doc = [d \in Dirs |-> NoDoc]
  /\ registry = [d \in Dirs |-> 0]
  /\ lockGen = [d \in Dirs |-> 0]
  /\ lockHeld = {}
  /\ activeLock = "none"
  /\ pending = <<>>
  /\ active = <<>>
  /\ hs = [h \in Handles |-> NoHandle]
  /\ proc = [h \in Handles |-> NoProc]
  /\ nh = 0
  /\ pc = [t \in Threads |-> IF t = Mon THEN "mon_top" ELSE "idle"]
  /\ loc = [t \in Threads |-> NoLoc]
  /\ mon = NoMon
  /\ stopEvt = FALSE
  /\ hist = NoHist

Init == RunnerInit /\ maxParallel = MaxParallel /\ LibIdle

\* a client operation returns
Return(c) ==
  /\ pc' = [pc EXCEPT ![c] = "idle"]
  /\ loc' = [loc EXCEPT ![c] = NoLoc]

(* ------------------------------ submit ---------------------------------- *)

\* submit, lines 376-388: allocate the handle id, fetch the per-run lock
SubmitBegin(c, d, tl, maxh) ==
  /\ pc[c] = "idle"
  /\ nh < maxh
  /\ nh' = nh + 1
  /\ GetRunLock(d)
  /\ loc' = [loc EXCEPT ![c] = [NoLoc EXCEPT !.op = "submit", !.d = d,
                                  !.h = nh + 1, !.lk = RunLockGen(d),
                                  !.tmo = tl]]
  /\ pc' = [pc EXCEPT ![c] = "sub_write"]
  /\ UNCHANGED <<libVars, lockKind, maxParallel, stopEvt, doc, lockHeld, activeLock, pending, active, hs,
                 proc, mon, hist>>

\* submit, lines 391-435: `with lock:` ... _json_atomic_write(queued payload)
SubmitWriteQueued(c) ==
  /\ pc[c] = "sub_write"
  /\ LET d == loc[c].d
         g == loc[c].lk
     IN /\ CanAcquire(c, d, g)
        /\ lockHeld' = lockHeld \cup {<<d, g, c>>}
        /\ doc' = [doc EXCEPT ![d] = QueuedPayload(doc[d])]
  /\ pc' = [pc EXCEPT ![c] = "sub_append"]
  /\ UNCHANGED <<libVars, lockKind, maxParallel, stopEvt, registry, lockGen, activeLock, pending, active,
                 hs, proc, nh, loc, mon, hist>>

\* submit, lines 436-450: _append_event inside the lock, leave the lock,
\* construct the handle and the pending item
SubmitAppend(c) ==
  /\ pc[c] = "sub_append"
  /\ LET d == loc[c].d
         g == loc[c].lk
         h == loc[c].h
     IN /\ CanAcquire(c, d, g)
        /\ doc' = [doc EXCEPT ![d] = AppendEvent(@, "queued")]
        /\ lockHeld' = lockHeld \ {<<d, g, c>>}
        /\ hs' = [hs EXCEPT ![h] = [NoHandle EXCEPT !.d = d, !.lk = g,
                                      !.tl = loc[c].tmo]]
  /\ pc' = [pc EXCEPT ![c] = "sub_admit"]
  /\ UNCHANGED <<libVars, lockKind, maxParallel, stopEvt, registry, lockGen, activeLock, pending, active,
                 proc, nh, loc, mon, hist>>

\* submit, lines 452-475: under the runner lock, spawn now or enqueue
SubmitAdmit(c) ==
  /\ pc[c] = "sub_admit"
  /\ activeLock = "none"
  /\ LET h == loc[c].h
     IN IF HasCapacity
        THEN \* _spawn_from_pending_locked, lines 887-917: Popen
             /\ activeLock' = c
             /\ proc' = [proc EXCEPT ![h] = [NoProc EXCEPT !.st = "alive"]]
             /\ pc' = [pc EXCEPT ![c] = "spawn_write"]
             /\ UNCHANGED <<pending, hs, mon, hist, loc>>
        ELSE /\ pending' = Append(pending, h)
             /\ hs' = [hs EXCEPT ![h].pub = TRUE]
             /\ mon' = Notify(mon)
             /\ hist' = [hist EXCEPT !.enqNo[h] = hist.nenq + 1,
                                     !.nenq = @ + 1]
             /\ Return(c)
             /\ UNCHANGED <<activeLock, proc>>
  /\ UNCHANGED <<libVars, lockKind, maxParallel, stopEvt, doc, registry, lockGen, lockHeld, active, nh>>

(* ------------------------------- spawn ---------------------------------- *)

\* _spawn_from_pending_locked, lines 919-935: `with lock:` write running
SpawnWrite(t) ==
  /\ pc[t] = "spawn_write"
  /\ LET h == loc[t].h
         d == hs[h].d
         g == hs[h].lk
     IN /\ CanAcquire(t, d, g)
        /\ lockHeld' = lockHeld \cup {<<d, g, t>>}
        /\ doc' = [doc EXCEPT ![d] = [@ EXCEPT !.state = "running",
                                         !.started = TRUE, !.pid = h]]
  /\ pc' = [pc EXCEPT ![t] = "spawn_append"]
  /\ UNCHANGED <<libVars, lockKind, maxParallel, stopEvt, registry, lockGen, activeLock, pending, active,
                 hs, proc, nh, loc, mon, hist>>

\* _spawn_from_pending_locked, lines 936-958: event, leave the lock, update
\* the handle, register the record; then the caller's epilogue
\* (submit: lines 471-475; monitor: back to the while of line 834)
SpawnAppend(t) ==
  /\ pc[t] = "spawn_append"
  /\ LET h == loc[t].h
         d == hs[h].d
         g == hs[h].lk
     IN /\ CanAcquire(t, d, g)
        /\ doc' = [doc EXCEPT ![d] = AppendEvent(@, "running")]
        /\ lockHeld' = lockHeld \ {<<d, g, t>>}
        /\ hs' = [hs EXCEPT ![h] = [@ EXCEPT !.hasProc = TRUE,
                                       !.dl = hs[h].tl, !.pub = TRUE]]
        /\ active' = ActivePut(d, h)
  /\ IF t = Mon
     THEN /\ pc' = [pc EXCEPT ![t] = "mon_dispatch"]
          /\ UNCHANGED <<activeLock, mon, loc>>
     ELSE /\ activeLock' = "none"
          /\ mon' = Notify(mon)
          /\ Return(t)
  /\ UNCHANGED <<libVars, lockKind, maxParallel, stopEvt, registry, lockGen, pending, proc, nh, hist>>

(* ---------------------------- spawn failure ----------------------------- *)

SpawnFailedDocKeepsState(dc) == [dc EXCEPT !.finished = TRUE]

\* lines 843-845 (monitor) and 462-464 (submit): the document written after
\* _spawn_from_pending_locked raised
SpawnFailedDoc(dc) ==
  [dc EXCEPT !.state = "failed", !.finished = TRUE, !.hasRc = TRUE,
             !.rc = NoRc]

\* lines 834-838: pop the head; Popen (or the open of a log file) raises
MonDispatchFail ==
  /\ pc[Mon] = "mon_dispatch"
  /\ activeLock \in {"none", Mon}
  /\ HasCapacity /\ pending # <<>>
  /\ activeLock' = Mon
  /\ loc' = [loc EXCEPT ![Mon] = [NoLoc EXCEPT !.h = Head(pending)]]
  /\ pending' = Tail(pending)
  /\ pc' = [pc EXCEPT ![Mon] = "sf_write"]
  /\ UNCHANGED <<libVars, lockKind, maxParallel, stopEvt, doc, registry, lockGen, lockHeld,
                 active, hs, proc, nh, mon, hist>>

\* lines 453-457: submit finds capacity and the spawn raises
SubmitAdmitFail(c) ==
  /\ pc[c] = "sub_admit"
  /\ activeLock = "none"
  /\ HasCapacity
  /\ activeLock' = c
  /\ pc' = [pc EXCEPT ![c] = "sf_write"]
  /\ UNCHANGED <<libVars, lockKind, maxParallel, stopEvt, doc, registry, lockGen, lockHeld,
                 pending, active, hs, proc, nh, loc, mon, hist>>

\* lines 840-846 and 459-465: `with item.lock:` write failed
SpawnFailWrite(t) ==
  /\ pc[t] = "sf_write"
  /\ LET h == loc[t].h
         d == hs[h].d
         g == hs[h].lk
     IN /\ CanAcquire(t, d, g)
        /\ lockHeld' = lockHeld \cup {<<d, g, t>>}
        /\ doc' = [doc EXCEPT ![d] = SpawnFailedDoc(@)]
  /\ pc' = [pc EXCEPT ![t] = "sf_append"]
  /\ UNCHANGED <<libVars, lockKind, maxParallel, stopEvt, registry, lockGen, activeLock,
                 pending, active, hs, proc, nh, loc, mon, hist>>

\* lines 847-849: event, leave the lock, set the finished event, back to the
\* while of line 834; lines 466-467: event, leave the lock, re-raise out of
\* `with self._active_lock` (no notify, no handle returned)
SpawnFailAppend(t) ==
  /\ pc[t] = "sf_append"
  /\ LET h == loc[t].h
         d == hs[h].d
         g == hs[h].lk
     IN /\ CanAcquire(t, d, g)
        /\ doc' = [doc EXCEPT ![d] = AppendEvent(@, "failed")]
        /\ lockHeld' = lockHeld \ {<<d, g, t>>}
        /\ IF t = Mon
           THEN /\ hs' = [hs EXCEPT ![h].finished = TRUE]
                /\ pc' = [pc EXCEPT ![t] = "mon_dispatch"]
                /\ UNCHANGED <<activeLock, loc>>
           ELSE /\ activeLock' = "none"
                /\ Return(t)
                /\ UNCHANGED hs
  /\ UNCHANGED <<libVars, lockKind, maxParallel, stopEvt, registry, lockGen, pending,
                 active, proc, nh, mon, hist>>

(* ------------------------------- close ---------------------------------- *)

CloseSetNoStop(c) ==
  /\ pc[c] = "idle"
  /\ loc' = [loc EXCEPT ![c] = [NoLoc EXCEPT !.op = "close"]]
  /\ pc' = [pc EXCEPT ![c] = "close_notify"]
  /\ UNCHANGED <<libVars, lockKind, maxParallel, stopEvt, doc, registry, lockGen, lockHeld,
                 activeLock, pending, active, hs, proc, nh, mon, hist>>

\* close, line 543: self._stop_event.set()
CloseSet(c) ==
  /\ pc[c] = "idle"
  /\ stopEvt' = TRUE
  /\ loc' = [loc EXCEPT ![c] = [NoLoc EXCEPT !.op = "close"]]
  /\ pc' = [pc EXCEPT ![c] = "close_notify"]
  /\ UNCHANGED <<libVars, lockKind, maxParallel, doc, registry, lockGen, lockHeld,
                 activeLock, pending, active, hs, proc, nh, mon, hist>>

\* close, lines 545-546: `with self._active_lock:` notify_all
CloseNotify(c) ==
  /\ pc[c] = "close_notify"
  /\ activeLock = "none"
  /\ mon' = Notify(mon)
  /\ pc' = [pc EXCEPT ![c] = "close_join"]
  /\ UNCHANGED <<libVars, lockKind, maxParallel, stopEvt, doc, registry, lockGen, lockHeld,
                 activeLock, pending, active, hs, proc, nh, loc, hist>>

\* close, line 547: join(timeout=2.0) returns, the monitor ended or not
CloseJoin(c) ==
  /\ pc[c] = "close_join"
  /\ Return(c)
  /\ UNCHANGED <<libVars, lockKind, maxParallel, stopEvt, doc, registry, lockGen, lockHeld,
                 activeLock, pending, active, hs, proc, nh, mon, hist>>

(* --------------------------- child processes ---------------------------- *)

\* a process that was killed, or that honoured SIGTERM, exits non-zero
ForcedExit(h) == proc[h].sig \in {"term", "kill"}

\* the process of handle h exits; rc is the code it returns when it was
\* not signalled
ProcExit(h, rc) ==
  /\ proc[h].st = "alive"
  /\ proc' = [proc EXCEPT ![h] = [st |-> "zombie",
                                   rc |-> IF ForcedExit(h) THEN 1 ELSE rc,
                                   sig |-> "none"]]
  /\ hist' = [hist EXCEPT !.early[h] = hs[h].tl /\ ~hs[h].exp]
  /\ UNCHANGED <<libVars, lockKind, maxParallel, stopEvt, doc, registry, lockGen, lockHeld, activeLock,
                 pending, active, hs, nh, pc, loc, mon>>

\* the wall-clock deadline of a record passes
DeadlinePasses(h) ==
  /\ hs[h].dl /\ ~hs[h].exp
  /\ hs' = [hs EXCEPT ![h].exp = TRUE]
  /\ UNCHANGED <<libVars, lockKind, maxParallel, stopEvt, doc, registry, lockGen, lockHeld, activeLock,
                 pending, active, proc, nh, pc, loc, mon, hist>>

\* Popen.poll(): None while the child runs; reaps an exited child
Polled(p) == IF p.st = "zombie" THEN [p EXCEPT !.st = "reaped"] ELSE p

\* os.kill(pid, 0), lines 553-571: an exited child stays visible until it
\* has been reaped
PidAlive(h) == h # 0 /\ proc[h].st \in {"alive", "zombie"}

\* SIGTERM without waiting: the child honours it ("term", it exits later)
\* or ignores it ("term_ign", for good)
TermOutcomes(p) ==
  IF p.st = "alive" /\ p.sig = "none"
  THEN {[p EXCEPT !.sig = "term"], [p EXCEPT !.sig = "term_ign"]}
  ELSE {p}

\* SIGKILL
Killed(p) == IF p.st = "alive" THEN [p EXCEPT !.sig = "kill"] ELSE p

\* _signal_timeout, lines 961-982: SIGTERM, proc.wait(timeout=5) (which
\* reaps a child that exited), SIGKILL to a survivor
SignalTimeoutOutcomes(p) ==
  IF p.st # "alive" THEN {p}
  ELSE IF p.sig = "term_ign" THEN {Killed(p)}
  ELSE {[st |-> "reaped", rc |-> 1, sig |-> "none"], Killed(p)}

\* _terminate_pid, lines 597-626: SIGTERM, poll _pid_alive up to grace_s,
\* SIGKILL if the pid is still there
TerminatePidOutcomes(p) ==
  IF p.st # "alive" THEN {p}
  ELSE IF p.sig = "term_ign" THEN {Killed(p)}
  ELSE {[st |-> "zombie", rc |-> 1, sig |-> "none"], Killed(p)}

(* ------------------------------ monitor --------------------------------- *)

FinalStateCancelFirst(timedOut, cancelReq, rc) ==
  IF cancelReq THEN "cancelled"
  ELSE IF timedOut THEN "timed_out"
  ELSE IF rc = 0 THEN "succeeded" ELSE "failed"

\* _monitor_loop, lines 802-807 (and _LocalRunHandle.status, lines 189-193)
FinalState(timedOut, cancelReq, rc) ==
  IF timedOut THEN "timed_out"
  ELSE IF cancelReq THEN "cancelled"
  ELSE IF rc = 0 THEN "succeeded" ELSE "failed"

\* where the pass goes after an item: next item, removal, or dispatch
AfterItems(items, remove) ==
  IF items # <<>> THEN "mon_item"
  ELSE IF remove # <<>> THEN "mon_popactive" ELSE "mon_dispatch"

\* lines 777-783: the loop test on the stop event; snapshot of the active
\* map, now = time.monotonic()
MonSnapshot ==
  /\ pc[Mon] = "mon_top"
  /\ IF stopEvt
     THEN /\ pc' = [pc EXCEPT ![Mon] = "mon_done"]
          /\ UNCHANGED mon
     ELSE /\ activeLock = "none"
          /\ mon' = [mon EXCEPT !.items = active,
                                !.now = {h \in Handles : hs[h].dl /\ hs[h].exp},
                                !.remove = <<>>]
          /\ pc' = [pc EXCEPT ![Mon] = AfterItems(active, <<>>)]
  /\ UNCHANGED <<libVars, lockKind, maxParallel, stopEvt, doc, registry, lockGen, lockHeld, activeLock,
                 pending, active, hs, proc, nh, loc, hist>>

TimeoutDueIgnoringPoll(h) == hs[h].dl /\ h \in mon.now

\* line 792
TimeoutDue(h) == hs[h].dl /\ proc[h].st = "alive" /\ h \in mon.now

\* lines 792-794: flag the handle, signal the process
MonTimeoutSignal ==
  /\ pc[Mon] = "mon_item"
  /\ mon.items # <<>>
  /\ LET h == Head(mon.items).h
     IN /\ TimeoutDue(h)
        /\ hs' = [hs EXCEPT ![h].timedOut = TRUE]
        /\ \E q \in SignalTimeoutOutcomes(proc[h]) :
             proc' = [proc EXCEPT ![h] = q]
        /\ hist' = [hist EXCEPT !.tsig[h] = @ + 1]
  /\ pc' = [pc EXCEPT ![Mon] = "mon_tevent"]
  /\ UNCHANGED <<libVars, lockKind, maxParallel, stopEvt, doc, registry, lockGen, lockHeld, activeLock,
                 pending, active, nh, loc, mon>>

\* lines 795-796: _append_event takes rec.lock itself, appends and leaves
\* it; then the deadline is cleared
MonTimeoutEvent ==
  /\ pc[Mon] = "mon_tevent"
  /\ LET h == Head(mon.items).h
         d == hs[h].d
     IN /\ CanAcquire(Mon, d, hs[h].lk)
        /\ doc' = [doc EXCEPT ![d] = AppendEvent(@, "timed_out")]
        /\ hs' = [hs EXCEPT ![h].dl = FALSE]
  /\ pc' = [pc EXCEPT ![Mon] = "mon_poll"]
  /\ UNCHANGED <<libVars, lockKind, maxParallel, stopEvt, registry, lockGen, lockHeld, activeLock, pending,
                 active, proc, nh, loc, mon, hist>>

\* lines 798-807: rc = proc.poll(); classify the final state
MonPoll ==
  /\ mon.items # <<>>
  /\ LET h == Head(mon.items).h
     IN /\ \/ pc[Mon] = "mon_poll"
           \/ pc[Mon] = "mon_item" /\ ~TimeoutDue(h)
        /\ proc' = [proc EXCEPT ![h] = Polled(@)]
        /\ IF proc[h].st = "alive"
           THEN /\ mon' = [mon EXCEPT !.items = Tail(@)]
                /\ pc' = [pc EXCEPT ![Mon] =
                                 AfterItems(Tail(mon.items), mon.remove)]
           ELSE /\ mon' = [mon EXCEPT
                             !.final = FinalState(hs[h].timedOut,
                                                  hs[h].cancelReq, proc[h].rc),
                             !.rc = proc[h].rc,
                             !.sto = hs[h].timedOut,
                             !.scr = hs[h].cancelReq]
                /\ pc' = [pc EXCEPT ![Mon] = "mon_fwrite"]
  /\ UNCHANGED <<libVars, lockKind, maxParallel, stopEvt, doc, registry, lockGen, lockHeld, activeLock,
                 pending, active, hs, nh, loc, hist>>

\* lines 809-817: `with rec.lock:` doc.update(state, finished_at, return_code)
MonFinalWrite ==
  /\ pc[Mon] = "mon_fwrite"
  /\ LET h == Head(mon.items).h
         d == Head(mon.items).d
         g == hs[h].lk
     IN /\ CanAcquire(Mon, d, g)
        /\ lockHeld' = lockHeld \cup {<<d, g, Mon>>}
        /\ doc' = [doc EXCEPT ![d] = [@ EXCEPT !.state = mon.final,
                                         !.finished = TRUE, !.hasRc = TRUE,
                                         !.rc = mon.rc]]
  /\ pc' = [pc EXCEPT ![Mon] = "mon_fappend"]
  /\ UNCHANGED <<libVars, lockKind, maxParallel, stopEvt, registry, lockGen, activeLock, pending, active,
                 hs, proc, nh, loc, mon, hist>>

\* lines 818-821: event, leave the lock, set the finished event, to_remove
MonFinalAppend ==
  /\ pc[Mon] = "mon_fappend"
  /\ LET h == Head(mon.items).h
         d == Head(mon.items).d
         g == hs[h].lk
     IN /\ CanAcquire(Mon, d, g)
        /\ doc' = [doc EXCEPT ![d] = AppendEvent(@, mon.final)]
        /\ lockHeld' = lockHeld \ {<<d, g, Mon>>}
        /\ hs' = [hs EXCEPT ![h].finished = TRUE]
        /\ mon' = [mon EXCEPT !.items = Tail(@), !.remove = Append(@, d),
                              !.final = "none", !.rc = NoRc,
                              !.sto = FALSE, !.scr = FALSE]
        /\ pc' = [pc EXCEPT ![Mon] =
                        AfterItems(Tail(mon.items), Append(mon.remove, d))]
  /\ UNCHANGED <<libVars, lockKind, maxParallel, stopEvt, registry, lockGen, activeLock, pending, active,
                 proc, nh, loc, hist>>

\* lines 823-826: under the runner lock, pop every finalized run_dir
MonPopActive ==
  /\ pc[Mon] = "mon_popactive"
  /\ activeLock = "none"
  /\ active' = SeqWithout(active, SeqElems(mon.remove))
  /\ pc' = [pc EXCEPT ![Mon] = "mon_poplocks"]
  /\ UNCHANGED <<libVars, lockKind, maxParallel, stopEvt, doc, registry, lockGen, lockHeld, activeLock,
                 pending, hs, proc, nh, loc, mon, hist>>

\* lines 828-830: drop the per-run locks of the finalized run_dirs
MonPopLocks ==
  /\ pc[Mon] = "mon_poplocks"
  /\ registry' = [d \in Dirs |->
                    IF d \in SeqElems(mon.remove) THEN 0 ELSE registry[d]]
  /\ mon' = [mon EXCEPT !.remove = <<>>]
  /\ pc' = [pc EXCEPT ![Mon] = "mon_dispatch"]
  /\ UNCHANGED <<libVars, lockKind, maxParallel, stopEvt, doc, lockGen, lockHeld, activeLock, pending,
                 active, hs, proc, nh, loc, hist>>

PopIndexLast(q) == Len(q)

\* deque.popleft()
PopIndex(q) == 1

\* lines 833-837: while capacity and pending: pop the head, Popen
MonDispatch ==
  /\ pc[Mon] = "mon_dispatch"
  /\ activeLock \in {"none", Mon}
  /\ IF HasCapacity /\ pending # <<>>
     THEN LET h == pending[PopIndex(pending)]
          IN /\ pending' = SeqRemoveAt(pending, PopIndex(pending))
             /\ proc' = [proc EXCEPT ![h] = [NoProc EXCEPT !.st = "alive"]]
             /\ activeLock' = Mon
             /\ loc' = [loc EXCEPT ![Mon] = [NoLoc EXCEPT !.h = h]]
             /\ pc' = [pc EXCEPT ![Mon] = "spawn_write"]
     ELSE /\ activeLock' = "none"
          /\ loc' = [loc EXCEPT ![Mon] = NoLoc]
          /\ pc' = [pc EXCEPT ![Mon] = "mon_sleep"]
          /\ UNCHANGED <<pending, proc>>
  /\ UNCHANGED <<libVars, lockKind, maxParallel, stopEvt, doc, registry, lockGen, lockHeld, active, hs, nh,
                 mon, hist>>

\* lines 853-879: under the condition's lock, return if the stop event is
\* set, else pick the timeout and wait
MonSleep ==
  /\ pc[Mon] = "mon_sleep"
  /\ activeLock = "none"
  /\ IF stopEvt
     THEN /\ pc' = [pc EXCEPT ![Mon] = "mon_done"]
          /\ UNCHANGED mon
     ELSE /\ mon' = [mon EXCEPT !.timeout = (active # <<>> \/ pending # <<>>),
                                !.woken = FALSE]
          /\ pc' = [pc EXCEPT ![Mon] = "mon_wait"]
  /\ UNCHANGED <<libVars, lockKind, maxParallel, stopEvt, doc, registry, lockGen, lockHeld, activeLock,
                 pending, active, hs, proc, nh, loc, hist>>

\* line 879 returns: the timeout elapsed or a notification arrived
MonWake ==
  /\ pc[Mon] = "mon_wait"
  /\ mon.timeout \/ mon.woken
  /\ activeLock = "none"
  /\ mon' = [mon EXCEPT !.timeout = FALSE, !.woken = FALSE]
  /\ pc' = [pc EXCEPT ![Mon] = "mon_top"]
  /\ UNCHANGED <<libVars, lockKind, maxParallel, stopEvt, doc, registry, lockGen, lockHeld, activeLock,
                 pending, active, hs, proc, nh, loc, hist>>

\* the monitor's steps that concern time limits
MonitorTimeoutStep ==
  \/ MonTimeoutSignal
  \/ MonTimeoutEvent

MonitorStep ==
  \/ MonSnapshot
  \/ MonPoll
  \/ MonFinalWrite
  \/ MonFinalAppend
  \/ MonPopActive
  \/ MonPopLocks
  \/ MonDispatch
  \/ MonSleep
  \/ MonWake
  \/ SpawnWrite(Mon)
  \/ SpawnAppend(Mon)

(* ------------------------ _finalize_unknown_exit ----------------------- *)

\* entry: remember the target state and where to return to
CallFinalize(c, l, st, cont) ==
  /\ loc' = [loc EXCEPT ![c] = [l EXCEPT !.st = st, !.cont = cont]]
  /\ pc' = [pc EXCEPT ![c] = "fu_getlock"]

\* line 579: lock = self._get_run_lock(run_dir)
FuGetLock(c) ==
  /\ pc[c] = "fu_getlock"
  /\ GetRunLock(loc[c].d)
  /\ loc' = [loc EXCEPT ![c].item = RunLockGen(loc[c].d)]
  /\ pc' = [pc EXCEPT ![c] = "fu_write"]
  /\ UNCHANGED <<libVars, lockKind, maxParallel, stopEvt, doc, lockHeld, activeLock, pending, active, hs,
                 proc, nh, mon, hist>>

FuWriteDocUnconditional(dc, st) ==
  [dc EXCEPT !.state = st, !.finished = TRUE, !.hasRc = TRUE]

\* lines 582-594: a terminal document is left alone; else state,
\* finished_at, return_code (kept if present), reason
FuWriteDoc(dc, st) ==
  IF dc.state \in Terminal THEN dc
  ELSE [dc EXCEPT !.state = st, !.finished = TRUE, !.hasRc = TRUE]

\* lines 580-594: `with lock:` read the state, return or write
FuWrite(c) ==
  /\ pc[c] = "fu_write"
  /\ LET d == loc[c].d
         g == loc[c].item
     IN /\ CanAcquire(c, d, g)
        /\ doc' = [doc EXCEPT ![d] = FuWriteDoc(@, loc[c].st)]
        /\ IF doc[d].state \in Terminal
           THEN \* line 585: return, leaving the with block
                /\ lockHeld' = lockHeld
                /\ loc' = [loc EXCEPT ![c].nest = FALSE]
                /\ pc' = [pc EXCEPT ![c] = "fu_ret"]
           ELSE /\ lockHeld' = lockHeld \cup {<<d, g, c>>}
                /\ loc' = [loc EXCEPT ![c].nest = Holds(c, d, g),
                                      ![c].wrote = TRUE]
                /\ pc' = [pc EXCEPT ![c] = "fu_append"]
  /\ UNCHANGED <<libVars, lockKind, maxParallel, stopEvt, registry, lockGen, activeLock, pending, active,
                 hs, proc, nh, mon, hist>>

\* line 595: event, leave the with block (an outer holder keeps the lock)
FuAppend(c) ==
  /\ pc[c] = "fu_append"
  /\ LET d == loc[c].d
         g == loc[c].item
     IN /\ CanAcquire(c, d, g)
        /\ doc' = [doc EXCEPT ![d] = AppendEvent(@, loc[c].st)]
        /\ lockHeld' = IF loc[c].nest THEN lockHeld
                       ELSE lockHeld \ {<<d, g, c>>}
  /\ loc' = [loc EXCEPT ![c].nest = FALSE]
  /\ pc' = [pc EXCEPT ![c] = "fu_ret"]
  /\ UNCHANGED <<libVars, lockKind, maxParallel, stopEvt, registry, lockGen, activeLock, pending, active,
                 hs, proc, nh, mon, hist>>

(* ------------------------------ cancel ---------------------------------- *)

\* _LocalRunHandle.cancel, lines 249-262
CancelBegin(c, h) ==
  /\ pc[c] = "idle"
  /\ hs[h].pub
  /\ hs' = [hs EXCEPT ![h].cancelReq = TRUE]
  /\ loc' = [loc EXCEPT ![c] = [NoLoc EXCEPT !.op = "cancel", !.h = h,
                                  !.d = hs[h].d,
                                  !.again = hs[h].cancelReq,
                                  !.term = doc[hs[h].d].state \in Terminal]]
  /\ pc' = [pc EXCEPT ![c] =
               IF hs[h].hasProc THEN "cancel_running"
               ELSE IF doc[hs[h].d].state = "running" THEN "ca_getlock"
               ELSE "cq_search"]
  /\ UNCHANGED <<libVars, lockKind, maxParallel, stopEvt, doc, registry, lockGen, lockHeld, activeLock,
                 pending, active, proc, nh, mon, hist>>

\* the first pending item of this run_dir, 0 if there is none
PendingIdx(d) ==
  IF \E i \in 1..Len(pending) : hs[pending[i]].d = d
  THEN CHOOSE i \in 1..Len(pending) :
         /\ hs[pending[i]].d = d
         /\ \A j \in 1..(i - 1) : hs[pending[j]].d # d
  ELSE 0

\* _cancel_queued, lines 680-691: under the runner lock, find and remove
CqSearch(c) ==
  /\ pc[c] = "cq_search"
  /\ activeLock = "none"
  /\ LET i == PendingIdx(loc[c].d)
     IN IF i = 0
        THEN /\ Return(c)
             /\ UNCHANGED <<pending, hist>>
        ELSE /\ pending' = SeqRemoveAt(pending, i)
             /\ loc' = [loc EXCEPT ![c].item = pending[i]]
             /\ hist' = [hist EXCEPT !.cq =
                           IF loc[c].h \in SeqElems(pending)
                           THEN @ \cup {loc[c].h} ELSE @]
             /\ pc' = [pc EXCEPT ![c] = "cq_write"]
  /\ UNCHANGED <<libVars, lockKind, maxParallel, stopEvt, doc, registry, lockGen, lockHeld, activeLock,
                 active, hs, proc, nh, mon>>

\* _cancel_queued, lines 696-699
CancelledDoc(dc) ==
  [dc EXCEPT !.state = "cancelled", !.finished = TRUE, !.hasRc = TRUE,
             !.rc = NoRc]

\* _cancel_queued, lines 694-700: `with item.lock:` write cancelled
CqWrite(c) ==
  /\ pc[c] = "cq_write"
  /\ LET d == loc[c].d
         g == hs[loc[c].item].lk
     IN /\ CanAcquire(c, d, g)
        /\ lockHeld' = lockHeld \cup {<<d, g, c>>}
        /\ doc' = [doc EXCEPT ![d] = CancelledDoc(@)]
  /\ pc' = [pc EXCEPT ![c] = "cq_append"]
  /\ UNCHANGED <<libVars, lockKind, maxParallel, stopEvt, registry, lockGen, activeLock, pending, active,
                 hs, proc, nh, loc, mon, hist>>

\* _cancel_queued, lines 701-702: event, leave the lock, set the finished
\* event of the handle cancel() was called on
CqAppend(c) ==
  /\ pc[c] = "cq_append"
  /\ LET d == loc[c].d
         g == hs[loc[c].item].lk
     IN /\ CanAcquire(c, d, g)
        /\ doc' = [doc EXCEPT ![d] = AppendEvent(@, "cancelled")]
        /\ lockHeld' = lockHeld \ {<<d, g, c>>}
        /\ hs' = [hs EXCEPT ![loc[c].h].finished = TRUE]
  /\ pc' = [pc EXCEPT ![c] = "cq_droplock"]
  /\ UNCHANGED <<libVars, lockKind, maxParallel, stopEvt, registry, lockGen, activeLock, pending, active,
                 proc, nh, loc, mon, hist>>

\* _cancel_queued, lines 704-705: drop the per-run lock from the registry
CqDropLock(c) ==
  /\ pc[c] = "cq_droplock"
  /\ registry' = [registry EXCEPT ![loc[c].d] = 0]
  /\ pc' = [pc EXCEPT ![c] = "cq_notify"]
  /\ UNCHANGED <<libVars, lockKind, maxParallel, stopEvt, doc, lockGen, lockHeld, activeLock, pending,
                 active, hs, proc, nh, loc, mon, hist>>

\* _cancel_queued, lines 707-708: wake the monitor
CqNotify(c) ==
  /\ pc[c] = "cq_notify"
  /\ activeLock = "none"
  /\ mon' = Notify(mon)
  /\ Return(c)
  /\ UNCHANGED <<libVars, lockKind, maxParallel, stopEvt, doc, registry, lockGen, lockHeld, activeLock,
                 pending, active, hs, proc, nh, hist>>

\* _cancel_running, lines 720-735: SIGTERM, and SIGKILL if force
CancelSignals(p, force) ==
  IF force THEN {Killed(q) : q \in TermOutcomes(p)} ELSE TermOutcomes(p)

\* _cancel_running, lines 712-748: under the runner lock; force is the
\* argument of cancel(), first read here
CancelRunning(c, force) ==
  /\ pc[c] = "cancel_running"
  /\ activeLock = "none"
  /\ LET r == ActiveGet(loc[c].d)
     IN IF r = 0 \/ ~hs[r].hasProc
        THEN UNCHANGED <<proc, mon>>
        ELSE /\ \E q \in CancelSignals(proc[r], force) :
                  proc' = [proc EXCEPT ![r] = q]
             /\ mon' = Notify(mon)
  /\ Return(c)
  /\ UNCHANGED <<libVars, lockKind, maxParallel, stopEvt, doc, registry, lockGen, lockHeld, activeLock,
                 pending, active, hs, nh, hist>>

\* _cancel_attached, line 649
CaGetLock(c) ==
  /\ pc[c] = "ca_getlock"
  /\ GetRunLock(loc[c].d)
  /\ loc' = [loc EXCEPT ![c].lk = RunLockGen(loc[c].d)]
  /\ pc' = [pc EXCEPT ![c] = "ca_enter"]
  /\ UNCHANGED <<libVars, lockKind, maxParallel, stopEvt, doc, lockHeld, activeLock, pending, active, hs,
                 proc, nh, mon, hist>>

\* _cancel_attached, lines 650-670: `with lock:` read the state
CaEnter(c) ==
  /\ pc[c] = "ca_enter"
  /\ LET d == loc[c].d
         g == loc[c].lk
     IN /\ CanAcquire(c, d, g)
        /\ IF doc[d].state \in Terminal
           THEN \* line 654
                /\ Return(c)
                /\ UNCHANGED lockHeld
           ELSE IF doc[d].state # "running"
           THEN \* line 657, still inside the with block
                /\ lockHeld' = lockHeld \cup {<<d, g, c>>}
                /\ CallFinalize(c, loc[c], "cancelled", "ca_nonrunning")
           ELSE \* lines 661-670, then the with block ends
                /\ loc' = [loc EXCEPT ![c].pid = doc[d].pid]
                /\ pc' = [pc EXCEPT ![c] = "ca_term"]
                /\ UNCHANGED lockHeld
  /\ UNCHANGED <<libVars, lockKind, maxParallel, stopEvt, doc, registry, lockGen, activeLock, pending,
                 active, hs, proc, nh, mon, hist>>

\* _cancel_attached, lines 672-675: _terminate_pid, then finalize
CaTerminate(c) ==
  /\ pc[c] = "ca_term"
  /\ LET p == loc[c].pid
     IN IF p = 0 THEN UNCHANGED proc
        ELSE \E q \in TerminatePidOutcomes(proc[p]) :
               proc' = [proc EXCEPT ![p] = q]
  /\ CallFinalize(c, loc[c], "cancelled", "ca_final")
  /\ UNCHANGED <<libVars, lockKind, maxParallel, stopEvt, doc, registry, lockGen, lockHeld, activeLock,
                 pending, active, hs, nh, mon, hist>>

\* _cancel_attached, lines 658-659 and 676: set the finished event; the
\* non-running branch then leaves the with block of line 650
CaReturn(c) ==
  /\ pc[c] = "fu_ret"
  /\ loc[c].cont \in {"ca_nonrunning", "ca_final"}
  /\ hs' = [hs EXCEPT ![loc[c].h].finished = TRUE]
  /\ lockHeld' = IF loc[c].cont = "ca_nonrunning"
                 THEN lockHeld \ {<<loc[c].d, loc[c].lk, c>>}
                 ELSE lockHeld
  /\ Return(c)
  /\ UNCHANGED <<libVars, lockKind, maxParallel, stopEvt, doc, registry, lockGen, activeLock, pending,
                 active, proc, nh, mon, hist>>

(* ------------------------------ status ---------------------------------- *)

\* _LocalRunHandle.status, lines 185-193, after the poll
LiveStatus(h) ==
  IF proc[h].st = "alive" THEN "running"
  ELSE FinalState(hs[h].timedOut, hs[h].cancelReq, proc[h].rc)

\* status, lines 202-208: run.json says running and its pid is gone
StalePid(d) ==
  doc[d].state = "running" /\ doc[d].pid # 0 /\ ~PidAlive(doc[d].pid)

\* status() on a live handle, lines 185-193: poll (which reaps an exited
\* child) and classify
StatusLive(c, h) ==
  /\ pc[c] = "idle"
  /\ hs[h].pub /\ hs[h].hasProc
  /\ proc' = [proc EXCEPT ![h] = Polled(@)]
  /\ loc' = [loc EXCEPT ![c] = [NoLoc EXCEPT !.op = "status", !.h = h,
                                  !.d = hs[h].d, !.st = LiveStatus(h)]]
  /\ pc' = [pc EXCEPT ![c] = "status_ret"]
  /\ UNCHANGED <<libVars, lockKind, maxParallel, stopEvt, doc, registry, lockGen, lockHeld, activeLock,
                 pending, active, hs, nh, mon, hist>>

\* status() on a passive handle, lines 196-209
StatusPassive(c, h) ==
  /\ pc[c] = "idle"
  /\ hs[h].pub /\ ~hs[h].hasProc
  /\ IF StalePid(hs[h].d)
     THEN CallFinalize(c, [NoLoc EXCEPT !.op = "status", !.h = h,
                                        !.d = hs[h].d], "failed", "status")
     ELSE /\ loc' = [loc EXCEPT ![c] =
                      [NoLoc EXCEPT !.op = "status", !.h = h, !.d = hs[h].d,
                                    !.st = doc[hs[h].d].state]]
          /\ pc' = [pc EXCEPT ![c] = "status_ret"]
  /\ UNCHANGED <<libVars, lockKind, maxParallel, stopEvt, doc, registry, lockGen, lockHeld, activeLock,
                 pending, active, hs, proc, nh, mon, hist>>

\* status, lines 210-211: re-read run.json after the finalization
StatusFuReturn(c) ==
  /\ pc[c] = "fu_ret"
  /\ loc[c].cont = "status"
  /\ loc' = [loc EXCEPT ![c].st = doc[loc[c].d].state, ![c].cont = "none"]
  /\ pc' = [pc EXCEPT ![c] = "status_ret"]
  /\ UNCHANGED <<libVars, lockKind, maxParallel, stopEvt, doc, registry, lockGen, lockHeld, activeLock,
                 pending, active, hs, proc, nh, mon, hist>>

\* status returns loc.st to its caller
StatusReturn(c) ==
  /\ pc[c] = "status_ret"
  /\ Return(c)
  /\ UNCHANGED <<libVars, lockKind, maxParallel, stopEvt, doc, registry, lockGen, lockHeld, activeLock,
                 pending, active, hs, proc, nh, mon, hist>>

(* ------------------------------- wait ----------------------------------- *)

\* wait, line 220: live or passive; tmo: timeout_s is not None
WaitBegin(c, h, tmo) ==
  /\ pc[c] = "idle"
  /\ hs[h].pub
  /\ loc' = [loc EXCEPT ![c] = [NoLoc EXCEPT !.op = "wait", !.h = h,
                                  !.d = hs[h].d, !.tmo = tmo]]
  /\ pc' = [pc EXCEPT ![c] = IF hs[h].hasProc THEN "wait_live"
                             ELSE "wait_poll"]
  /\ UNCHANGED <<libVars, lockKind, maxParallel, stopEvt, doc, registry, lockGen, lockHeld, activeLock,
                 pending, active, hs, proc, nh, mon, hist>>

\* wait, lines 221-227: the finished event is set or the timeout elapsed;
\* return self.status()
WaitLive(c) ==
  /\ pc[c] = "wait_live"
  /\ hs[loc[c].h].finished \/ loc[c].tmo
  /\ proc' = [proc EXCEPT ![loc[c].h] = Polled(@)]
  /\ loc' = [loc EXCEPT ![c].st = LiveStatus(loc[c].h)]
  /\ pc' = [pc EXCEPT ![c] = "wait_ret"]
  /\ UNCHANGED <<libVars, lockKind, maxParallel, stopEvt, doc, registry, lockGen, lockHeld, activeLock,
                 pending, active, hs, nh, mon, hist>>

\* wait, lines 234-239, given the value st of self.status()
WaitDecide(c, st) ==
  IF st \in Terminal
  THEN /\ hs' = [hs EXCEPT ![loc[c].h].finished = TRUE]
       /\ loc' = [loc EXCEPT ![c].st = st, ![c].cont = "none"]
       /\ pc' = [pc EXCEPT ![c] = "wait_ret"]
  ELSE /\ UNCHANGED hs
       /\ \/ /\ loc[c].tmo
             /\ loc' = [loc EXCEPT ![c].st = st, ![c].cont = "none"]
             /\ pc' = [pc EXCEPT ![c] = "wait_ret"]
          \/ /\ loc' = [loc EXCEPT ![c].cont = "none"]
             /\ pc' = [pc EXCEPT ![c] = "wait_poll"]

\* wait, lines 232-239: one iteration of the polling loop
WaitPoll(c) ==
  /\ pc[c] = "wait_poll"
  /\ LET h == loc[c].h
     IN IF hs[h].hasProc
        THEN /\ proc' = [proc EXCEPT ![h] = Polled(@)]
             /\ WaitDecide(c, LiveStatus(h))
        ELSE IF StalePid(loc[c].d)
        THEN /\ CallFinalize(c, loc[c], "failed", "wait")
             /\ UNCHANGED <<hs, proc>>
        ELSE /\ WaitDecide(c, doc[loc[c].d].state)
             /\ UNCHANGED proc
  /\ UNCHANGED <<libVars, lockKind, maxParallel, stopEvt, doc, registry, lockGen, lockHeld, activeLock,
                 pending, active, nh, mon, hist>>

\* status, lines 210-211 inside wait's loop: re-read run.json
WaitFuReturn(c) ==
  /\ pc[c] = "fu_ret"
  /\ loc[c].cont = "wait"
  /\ WaitDecide(c, doc[loc[c].d].state)
  /\ UNCHANGED <<libVars, lockKind, maxParallel, stopEvt, doc, registry, lockGen, lockHeld, activeLock,
                 pending, active, proc, nh, mon, hist>>

\* wait returns loc.st to its caller
WaitReturn(c) ==
  /\ pc[c] = "wait_ret"
  /\ Return(c)
  /\ UNCHANGED <<libVars, lockKind, maxParallel, stopEvt, doc, registry, lockGen, lockHeld, activeLock,
                 pending, active, hs, proc, nh, mon, hist>>

(* ------------------------------ attach ---------------------------------- *)

\* attach, lines 486-538: a passive handle for a terminal or running run
Attach(c, d, maxh) ==
  /\ pc[c] = "idle"
  /\ nh < maxh
  /\ doc[d].state \in Terminal \cup {"running"}
  /\ nh' = nh + 1
  /\ IF doc[d].state = "running" /\ StalePid(d)
     THEN \* line 525
          /\ CallFinalize(c, [NoLoc EXCEPT !.op = "attach", !.h = nh + 1,
                                           !.d = d], "failed", "attach")
          /\ hs' = [hs EXCEPT ![nh + 1] = [NoHandle EXCEPT !.d = d]]
     ELSE /\ hs' = [hs EXCEPT ![nh + 1] =
                      [NoHandle EXCEPT !.d = d, !.pub = TRUE,
                                       !.finished = doc[d].state \in Terminal]]
          /\ UNCHANGED <<pc, loc>>
  /\ UNCHANGED <<libVars, lockKind, maxParallel, stopEvt, doc, registry, lockGen, lockHeld, activeLock,
                 pending, active, proc, mon, hist>>

\* attach, lines 526-528
AttachReturn(c) ==
  /\ pc[c] = "fu_ret"
  /\ loc[c].cont = "attach"
  /\ hs' = [hs EXCEPT ![loc[c].h] = [@ EXCEPT !.pub = TRUE,
                                              !.finished = TRUE]]
  /\ Return(c)
  /\ UNCHANGED <<libVars, lockKind, maxParallel, stopEvt, doc, registry, lockGen, lockHeld, activeLock,
                 pending, active, proc, nh, mon, hist>>

(* ------------------------------- Next ----------------------------------- *)

\* the steps of submit after its entry, and of the spawn it may perform
SubmitStep(c) ==
  \/ SubmitWriteQueued(c)
  \/ SubmitAppend(c)
  \/ SubmitAdmit(c)
  \/ SpawnWrite(c)
  \/ SpawnAppend(c)

CancelStep(c) ==
  \/ \E h \in Handles : CancelBegin(c, h)
  \/ CqSearch(c)
  \/ CqWrite(c)
  \/ CqAppend(c)
  \/ CqDropLock(c)
  \/ CqNotify(c)
  \/ \E force \in BOOLEAN : CancelRunning(c, force)
  \/ CaGetLock(c)
  \/ CaEnter(c)
  \/ CaTerminate(c)
  \/ CaReturn(c)
  \/ FuGetLock(c)
  \/ FuWrite(c)
  \/ FuAppend(c)

ObserveStep(c) ==
  \/ \E h \in Handles : StatusLive(c, h)
  \/ \E h \in Handles : StatusPassive(c, h)
  \/ StatusFuReturn(c)
  \/ StatusReturn(c)
  \/ \E h \in Handles, tmo \in BOOLEAN : WaitBegin(c, h, tmo)
  \/ WaitLive(c)
  \/ WaitPoll(c)
  \/ WaitFuReturn(c)
  \/ WaitReturn(c)
  \/ AttachReturn(c)

Next ==
  \/ \E c \in Clients :
       \/ \E d \in SpecDirs, tl \in BOOLEAN :
            SubmitBegin(c, d, tl, MaxHandles)
       \/ \E d \in SpecDirs : Attach(c, d, MaxHandles)
       \/ SubmitStep(c)
       \/ CancelStep(c)
       \/ ObserveStep(c)
  \/ MonitorStep
  \/ MonitorTimeoutStep
  \/ \E h \in Handles, rc \in ExitCodes : ProcExit(h, rc)
  \/ \E h \in Handles : DeadlinePasses(h)

Spec == Init /\ [][Next]_vars

NextQueue ==
  \/ \E c \in Clients :
       \/ \E d \in Dirs : SubmitBegin(c, d, FALSE, MaxHandlesQ)
       \/ SubmitStep(c)
       \/ CancelStep(c)
  \/ MonitorStep
  \/ \E h \in Handles : ProcExit(h, 0)

SpecQueue == Init /\ [][NextQueue]_vars

\* submit and the monitor with spawns that may raise, and close()
NextFault ==
  \/ \E c \in Clients :
       \/ \E d \in Dirs : SubmitBegin(c, d, FALSE, MaxHandlesQ)
       \/ SubmitStep(c)
       \/ SubmitAdmitFail(c)
       \/ SpawnFailWrite(c)
       \/ SpawnFailAppend(c)
       \/ CloseSet(c)
       \/ CloseNotify(c)
       \/ CloseJoin(c)
  \/ MonitorStep
  \/ MonDispatchFail
  \/ SpawnFailWrite(Mon)
  \/ SpawnFailAppend(Mon)
  \/ \E h \in Handles : ProcExit(h, 0)

SpecFault == Init /\ [][NextFault]_vars

(* ----------------- properties of the queue (SpecQueue) ------------------ *)

\* C2: with max_parallel = N, the active map (runs spawned and not yet
\* removed by the monitor) never holds more than N runs, whatever the
\* interleaving of submit with the monitor's dispatch
C2_ActiveWithinCap == Len(active) <= maxParallel

\* the cap is reached while a run waits and another submit is at admission
C2_Witness ==
  /\ Len(active) = maxParallel
  /\ pending # <<>>
  /\ \E c \in Clients : pc[c] = "sub_admit"

\* C3: dispatch is first-in-first-out: the run the monitor takes from the
\* pending queue entered it before every run it leaves there
C3_FifoDispatch ==
  [][(pc[Mon] = "mon_dispatch" /\ pc'[Mon] = "spawn_write")
       => \A k \in 1..Len(pending') :
            hist.enqNo[loc'[Mon].h] < hist.enqNo[pending'[k]]]_vars

\* the monitor spawns an enqueued run while a later one stays queued
C3_Witness ==
  /\ pc[Mon] = "spawn_write"
  /\ hist.enqNo[loc[Mon].h] > 0
  /\ pending # <<>>
  /\ hist.enqNo[pending[1]] > hist.enqNo[loc[Mon].h]

C4_Classification ==
  [][(pc[Mon] = "mon_fwrite" /\ pc'[Mon] = "mon_fappend")
       => doc'[Head(mon.items).d].state =
            IF mon.sto THEN "timed_out"
            ELSE IF mon.scr THEN "cancelled"
            ELSE IF mon.rc = 0 THEN "succeeded" ELSE "failed"]_vars

\* the monitor has persisted timed_out for a run that was also cancelled
C4_Witness ==
  /\ pc[Mon] = "mon_fappend"
  /\ mon.sto /\ mon.scr
  /\ doc[Head(mon.items).d].state = "timed_out"

C8_TimeoutOnce ==
  /\ \A h \in Handles :
       /\ hist.tsig[h] <= 1
       /\ hist.tsig[h] = 1
            => /\ hs[h].exp /\ hs[h].timedOut /\ ~hist.early[h]
               /\ hs[h].dl => pc[Mon] = "mon_tevent"
       /\ hs[h].timedOut => hist.tsig[h] = 1
  /\ pc[Mon] \in {"mon_fwrite", "mon_fappend"} /\ mon.final = "timed_out"
       => ~hist.early[Head(mon.items).h]

\* a run was signalled once and has been finalized timed_out
C8_Witness ==
  \E h \in Handles :
    /\ hist.tsig[h] = 1
    /\ hs[h].finished
    /\ doc[hs[h].d].state = "timed_out"

ActiveHandles == {active[i].h : i \in 1..Len(active)}

C13_CloseFrame ==
  [][\A c \in Clients :
       (pc'[c] # pc[c] /\ (loc[c].op = "close" \/ loc'[c].op = "close")) =>
         /\ doc' = doc /\ pending' = pending /\ active' = active
         /\ proc' = proc /\ hs' = hs
         /\ (pc'[c] = "idle" => stopEvt')
         /\ (pc[c] = "close_notify" /\ pc[Mon] = "mon_wait" => mon'.woken)]_vars

\* close() has returned with a run still queued and a process still running,
\* and the monitor has ended
C13_Witness ==
  /\ stopEvt /\ pc[Mon] = "mon_done"
  /\ \A c \in Clients : pc[c] = "idle"
  /\ pending # <<>>
  /\ \E h \in ActiveHandles : proc[h].st = "alive"
  /\ \E d \in Dirs : doc[d].state = "queued"

(* ---------------- properties of the passive handle (Spec) --------------- *)

\* the finalization of status() leaves a terminal run.json as it is and
\* turns any other into failed with finished_at set
C12_Finalization(c) ==
  (pc[c] = "fu_write" /\ pc'[c] # "fu_write" /\ loc[c].cont = "status") =>
    LET d == loc[c].d
    IN IF doc[d].state \in Terminal
       THEN doc' = doc /\ pc'[c] = "fu_ret"
       ELSE doc'[d].state = "failed" /\ doc'[d].finished

\* status() on a handle without a process returns the state it read from
\* run.json when that state is not a running one with a dead pid
C12_ReadThrough(c) ==
  (pc[c] = "idle" /\ pc'[c] = "status_ret" /\ ~hs[loc'[c].h].hasProc) =>
    /\ loc'[c].st = doc[loc'[c].d].state
    /\ ~StalePid(loc'[c].d)

MatFiles == {"a", "b"}

\* constants.py: inputs_path, files_path
MetaInputs == "_tl/inputs.json"
MetaFiles == "_tl/files.json"

NoDir == [exists |-> FALSE, files |-> {}]

\* a run directory left by an earlier materialization
OldDir == [exists |-> TRUE, files |-> {"old"}]

\* the sequences that enumerate a set once each (the order of os.walk)
Perms(S) ==
  {sq \in [1..Cardinality(S) -> S] :
     \A i, j \in 1..Cardinality(S) : i # j => sq[i] # sq[j]}

\* self._deny_set, line 271
DenySet(m) == m.targets

\* _copy_tree, lines 472-484: the prototype files that are copied
CopySet(m) == (m.proto \cap m.incl) \ DenySet(m)

IndexedFilesNoDeny(m) == m.final.files \cap m.incl

\* _index_copied_files, lines 532-541: the files of root that are indexed
IndexedFiles(m) == (m.final.files \cap m.incl) \ DenySet(m)

\* the target_relpath of the records made so far
RecordTargets(m) == {m.records[i].target : i \in 1..Len(m.records)}

StagedWriteInPlace(m, f) ==
  [m EXCEPT !.final = [exists |-> TRUE, files |-> m.final.files \cup {f}]]

\* lines 286-318: dst is tmp_dir for _copy_tree, and rendered files are
\* written to rs.target_relpath.join_under(tmp_dir)
StagedWrite(m, f) == [m EXCEPT !.tmp.files = @ \cup {f}]

MatInit ==
  mat \in [pc : {"start"}, proto : SUBSET MatFiles, targets : SUBSET MatFiles,
           incl : SUBSET (MatFiles \cup {MetaInputs}),
           indexCopied : BOOLEAN, badSubs : BOOLEAN,
           pre : {FALSE}, tmp : {NoDir}, final : {NoDir},
           records : {<<>>}, at : {"none"}]
      \cup
      [pc : {"start"}, proto : SUBSET MatFiles, targets : SUBSET MatFiles,
       incl : {MatFiles}, indexCopied : {FALSE}, badSubs : {FALSE},
       pre : {TRUE}, tmp : {NoDir}, final : {OldDir},
       records : {<<>>}, at : {"none"}]

\* lines 276-286: FileExistsError if the final directory exists, else mkdtemp
MatBegin ==
  /\ mat.pc = "start"
  /\ mat' = IF mat.final.exists
            THEN [mat EXCEPT !.pc = "raised", !.at = "exists"]
            ELSE [mat EXCEPT !.pc = "copy",
                             !.tmp = [exists |-> TRUE, files |-> {}]]
  /\ UNCHANGED <<runnerVars, aw, calc>>

\* _copy_tree, lines 485-506: one file of the prototype is copied or linked
MatCopy(f) ==
  /\ mat.pc = "copy"
  /\ f \in CopySet(mat) \ mat.tmp.files
  /\ mat' = StagedWrite(mat, f)
  /\ UNCHANGED <<runnerVars, aw, calc>>

\* _copy_tree returns, line 297
MatCopyDone ==
  /\ mat.pc = "copy"
  /\ CopySet(mat) \subseteq mat.tmp.files
  /\ mat' = [mat EXCEPT !.pc = "render"]
  /\ UNCHANGED <<runnerVars, aw, calc>>

\* lines 302-331: render one template, write it, append its record
MatRender(t) ==
  /\ mat.pc = "render"
  /\ t \in mat.targets \ RecordTargets(mat)
  /\ mat' = [StagedWrite(mat, t) EXCEPT
               !.records = Append(@, [target |-> t, rendered |-> TRUE])]
  /\ UNCHANGED <<runnerVars, aw, calc>>

\* line 334, DefaultStaging.finalize: os.replace(tmp, final_)
MatFinalize ==
  /\ mat.pc = "render"
  /\ mat.targets \subseteq RecordTargets(mat)
  /\ mat' = [mat EXCEPT !.final = mat.tmp, !.tmp = NoDir, !.pc = "inputs"]
  /\ UNCHANGED <<runnerVars, aw, calc>>

\* lines 336-341, _write_inputs_json: _to_json_scalar rejects a non-finite
\* float, else inputs.json is written into the final directory
MatWriteInputs ==
  /\ mat.pc = "inputs"
  /\ mat' = IF mat.badSubs
            THEN [mat EXCEPT !.pc = "raised", !.at = "inputs"]
            ELSE [mat EXCEPT !.final.files = @ \cup {MetaInputs},
                             !.pc = IF mat.indexCopied THEN "index"
                                    ELSE "files"]
  /\ UNCHANGED <<runnerVars, aw, calc>>

\* lines 344-352: records.extend(_index_copied_files(root=final_dir, ...))
MatIndex ==
  /\ mat.pc = "index"
  /\ \E sq \in Perms(IndexedFiles(mat)) :
       mat' = [mat EXCEPT
                 !.records = @ \o [i \in 1..Len(sq) |->
                                     [target |-> sq[i], rendered |-> FALSE]],
                 !.pc = "files"]
  /\ UNCHANGED <<runnerVars, aw, calc>>

\* line 354, _write_files_json_streaming, and the return of line 356
MatWriteFiles ==
  /\ mat.pc = "files"
  /\ mat' = [mat EXCEPT !.final.files = @ \cup {MetaFiles}, !.pc = "done"]
  /\ UNCHANGED <<runnerVars, aw, calc>>

\* an OSError (or a rendering error) raised by the step the call is at:
\* mkdtemp, copy, render or write, os.replace, the writes of inputs.json
\* and files.json, the stat or hash of a file while indexing
MatFail ==
  /\ mat.pc \in {"start", "copy", "render", "inputs", "index", "files"}
  /\ mat' = [mat EXCEPT !.pc = "raised", !.at = mat.pc]
  /\ UNCHANGED <<runnerVars, aw, calc>>

\* the runner exists and is not used
RunnerIdle == RunnerInit /\ maxParallel = MaxParallel /\ lockKind = "plain"

InitMat == RunnerIdle /\ MatInit /\ aw = "off" /\ calc = "off"

NextMat ==
  \/ MatBegin
  \/ \E f \in MatFiles : MatCopy(f)
  \/ MatCopyDone
  \/ \E t \in MatFiles : MatRender(t)
  \/ MatFinalize
  \/ MatWriteInputs
  \/ MatIndex
  \/ MatWriteFiles
  \/ MatFail

SpecMat == InitMat /\ [][NextMat]_vars

(* ---------------- properties of Materializer.run (SpecMat) -------------- *)

\* C14: when Materializer.run has raised, runs_root/run_id does not exist
\* unless it existed before the call.
C14_NoPartialFinal ==
  (mat.pc = "raised" /\ ~mat.pre) => ~mat.final.exists

\* C15: while Materializer.run copies and renders, the final directory is
\* not touched; it comes into existence in one step, taking the place of the
\* temp directory with all of its files; whenever it exists it holds every
\* copied file and every render target.
C15_StagedThenRenamed ==
  [][~mat.pre =>
       /\ (mat.pc \in {"start", "copy", "render"} /\ mat'.pc # "inputs") =>
            mat'.final = mat.final
       /\ (~mat.final.exists /\ mat'.final.exists) =>
            /\ mat'.final.files = mat.tmp.files
            /\ ~mat'.tmp.exists
       /\ mat'.final.exists =>
            (CopySet(mat) \cup mat.targets) \subseteq mat'.final.files]_vars

\* the final directory has just appeared, with a copied file and a rendered
\* one in it
C15_Witness ==
  /\ mat.pc = "inputs" /\ ~mat.pre /\ mat.final.exists
  /\ CopySet(mat) # {} /\ mat.targets # {}
  /\ ~mat.tmp.exists

\* C17: in the file records of a successful materialization no
\* target_relpath occurs twice, and every render target of the plan occurs
\* exactly once, in a record with was_rendered = true.
C17_RecordsUnique ==
  mat.pc = "done" =>
    /\ \A i, j \in 1..Len(mat.records) :
         mat.records[i].target = mat.records[j].target => i = j
    /\ \A t \in mat.targets :
         \E i \in 1..Len(mat.records) :
           mat.records[i] = [target |-> t, rendered |-> TRUE]

\* a materialization with index_copied succeeded; its records hold a
\* rendered file and a copied one
C17_Witness ==
  /\ mat.pc = "done" /\ mat.indexCopied
  /\ \E i, j \in 1..Len(mat.records) :
       mat.records[i].rendered /\ ~mat.records[j].rendered
  /\ mat.targets \cap mat.proto \cap mat.incl # {}

(* ============================ fingerprints ============================== *)
(* run/materialize.py, lines 567-599.  A substitution map is given by the   *)
(* sequence of (key, value) pairs its items() yields, in insertion order;   *)
(* values are literals ("1" and "2").  A SHA-256 digest is represented by   *)
(* the blob it was computed from: equal blobs give equal digests.           *)

SubsKeys == {"a", "b", "c"}
SubsValues == {"1", "2"}

\* the order of str on the keys (code points)
KeyRank == [k \in SubsKeys |-> IF k = "a" THEN 1 ELSE IF k = "b" THEN 2
                                                               ELSE 3]

\* list(subs.items()) for every map over SubsKeys and every insertion order
SubsItems ==
  UNION {{[i \in 1..Len(o) |-> <<o[i], f[o[i]]>>] : o \in Perms(DOMAIN f)} :
           f \in UNION {[S -> SubsValues] : S \in SUBSET SubsKeys}}

\* the fingerprinted knobs and the name of a plan
Plans ==
  {[name |-> n, include |-> <<"**/*">>, exclude |-> <<".git/**">>,
    newline |-> nl, ensure_trailing_newline |-> TRUE, link_mode |-> "copy",
    render_pairs |-> <<<<"in.yaml", "in.yaml">>>>] :
     n \in {"p", "q"}, nl \in {"LF", "CRLF"}}

RECURSIVE InsertSorted(_, _)
\* list.sort is stable: x goes behind the items whose key is not greater
InsertSorted(x, sq) ==
  IF sq = <<>> THEN <<x>>
  ELSE IF KeyRank[Head(sq)[1]] <= KeyRank[x[1]]
       THEN <<Head(sq)>> \o InsertSorted(x, Tail(sq))
       ELSE <<x>> \o sq

SortItemsKeepOrder(items) == items

RECURSIVE SortItems(_)
\* line 585: items.sort(key=lambda kv: kv[0])
SortItems(items) ==
  IF items = <<>> THEN <<>>
  ELSE InsertSorted(items[Len(items)],
                    SortItems(SubSeq(items, 1, Len(items) - 1)))

\* _hash_stable, lines 589-594: the digest of the JSON text of obj
HashStable(obj) == <<"sha256", obj>>

\* _plan_fingerprint, lines 567-579 (json.dumps sorts the keys of the dict)
PlanFingerprint(plan) ==
  HashStable(<<plan.ensure_trailing_newline, plan.exclude, plan.include,
               plan.link_mode, plan.newline, plan.render_pairs>>)

\* _subs_fingerprint, lines 582-586
SubsFingerprint(items) == HashStable(SortItems(items))

\* _make_run_id, lines 597-599
MakeRunId(planFp, subsFp) == <<planFp, "-", subsFp>>

NoIds == [plan_fp |-> <<>>, subs_fp |-> <<>>, run_id |-> <<>>]

InitFp ==
  /\ RunnerIdle /\ mat = "off" /\ aw = "off"
  /\ calc \in [plan : [1..2 -> Plans], subs : [1..2 -> SubsItems],
                out : {[i \in 1..2 |-> NoIds]}]

\* Materializer.run, lines 276-278, by the i-th Materializer
FpCompute(i) ==
  /\ calc.out[i] = NoIds
  /\ calc' = [calc EXCEPT !.out[i] =
       [plan_fp |-> PlanFingerprint(calc.plan[i]),
        subs_fp |-> SubsFingerprint(calc.subs[i]),
        run_id |-> MakeRunId(PlanFingerprint(calc.plan[i]),
                             SubsFingerprint(calc.subs[i]))]]
  /\ UNCHANGED <<runnerVars, mat, aw>>

NextFp == \E i \in 1..2 : FpCompute(i)

SpecFp == InitFp /\ [][NextFp]_vars

(* ------------------- properties of the fingerprints (SpecFp) ------------ *)

\* the (key, value) pairs of a map
PairsOf(items) == {items[i] : i \in 1..Len(items)}

\* the knobs _plan_fingerprint reads are equal
SameKnobs(p, q) ==
  /\ p.include = q.include /\ p.exclude = q.exclude
  /\ p.newline = q.newline
  /\ p.ensure_trailing_newline = q.ensure_trailing_newline
  /\ p.link_mode = q.link_mode /\ p.render_pairs = q.render_pairs

\* C16: two materializations whose plans have equal fingerprinted knobs and
\* whose substitution maps hold the same (key, value) pairs, in whatever
\* insertion order and by whichever Materializer, compute the same
\* plan_fingerprint, subs_fingerprint and run_id; run_id is plan_fingerprint,
\* "-", subs_fingerprint.
C16_RunIdDeterministic ==
  /\ \A i \in 1..2 :
       calc.out[i] # NoIds =>
         calc.out[i].run_id = <<calc.out[i].plan_fp, "-", calc.out[i].subs_fp>>
  /\ (/\ calc.out[1] # NoIds /\ calc.out[2] # NoIds
      /\ SameKnobs(calc.plan[1], calc.plan[2])
      /\ PairsOf(calc.subs[1]) = PairsOf(calc.subs[2]))
     => calc.out[1] = calc.out[2]

\* both have run: the same three pairs inserted in different orders, by
\* Materializers of two plans that differ in their name only
C16_Witness ==
  /\ calc.out[1] # NoIds /\ calc.out[2] # NoIds
  /\ calc.out[1] = calc.out[2]
  /\ calc.subs[1] # calc.subs[2]
  /\ Len(calc.subs[1]) = 3
  /\ PairsOf(calc.subs[1]) = PairsOf(calc.subs[2])
  /\ calc.plan[1].name # calc.plan[2].name

(* ============================ newline policy ============================ *)
(* run/materialize.py, lines 302-318.  A text is a sequence of characters   *)
(* "CR", "LF" and "x" (any other character); plan.newline is None           *)
(* (set = FALSE) or one of the three line terminators.  calc.linesep is     *)
(* os.linesep of the platform: Path.write_text opens the file in text mode  *)
(* with newline=None, which writes every "\n" as os.linesep.                *)

\* longest rendered text
MaxText == 4

Chars == {"CR", "LF", "x"}

Texts == UNION {[1..n -> Chars] : n \in 0..MaxText}

Newlines == {<<"LF">>, <<"CR", "LF">>, <<"CR">>}

RECURSIVE Replace(_, _, _)
\* str.replace(old, new): left to right, non-overlapping
Replace(t, old, new) ==
  IF Len(t) < Len(old) THEN t
  ELSE IF SubSeq(t, 1, Len(old)) = old
       THEN new \o Replace(SubSeq(t, Len(old) + 1, Len(t)), old, new)
       ELSE <<Head(t)>> \o Replace(Tail(t), old, new)

\* str.endswith(suffix)
EndsWith(t, suffix) ==
  Len(t) >= Len(suffix) /\ SubSeq(t, Len(t) - Len(suffix) + 1, Len(t)) = suffix

\* line 308: rendered_text.replace("\r\n", "\n").replace("\r", "\n")
ToLF(t) == Replace(Replace(t, <<"CR", "LF">>, <<"LF">>), <<"CR">>, <<"LF">>)

\* lines 307-313: the text that is written for a rendered text t
Normalize(t, plan) ==
  IF ~plan.set THEN t
  ELSE LET lf == ToLF(t)
           nl == IF plan.newline # <<"LF">>
                 THEN Replace(lf, <<"LF">>, plan.newline) ELSE lf
       IN IF plan.ensure_trailing_newline /\ ~EndsWith(nl, plan.newline)
          THEN nl \o plan.newline ELSE nl

\* os.linesep: POSIX, Windows
Lineseps == {<<"LF">>, <<"CR", "LF">>}

\* line 318: dst_abs.write_text(rendered_text, encoding="utf-8"), the
\* content of the file
WriteText(t, linesep) ==
  IF linesep = <<"LF">> THEN t ELSE Replace(t, <<"LF">>, linesep)

InitNl ==
  /\ RunnerIdle /\ mat = "off" /\ aw = "off"
  /\ calc \in [pc : {"render"}, text : Texts, linesep : Lineseps,
                plan : [set : BOOLEAN, newline : Newlines,
                        ensure_trailing_newline : BOOLEAN],
                norm : {<<>>}, out : {<<>>}, again : {<<>>}]

\* lines 303-318: the rendered text is normalized and written
NlWrite ==
  /\ calc.pc = "render"
  /\ calc' = [calc EXCEPT
                !.norm = Normalize(calc.text, calc.plan),
                !.out = WriteText(Normalize(calc.text, calc.plan),
                                  calc.linesep),
                !.pc = "written"]
  /\ UNCHANGED <<runnerVars, mat, aw>>

\* the normalized text is normalized once more, under the same plan
NlAgain ==
  /\ calc.pc = "written"
  /\ calc' = [calc EXCEPT !.again = Normalize(calc.norm, calc.plan),
                          !.pc = "twice"]
  /\ UNCHANGED <<runnerVars, mat, aw>>

NextNl == NlWrite \/ NlAgain

SpecNl == InitNl /\ [][NextNl]_vars

(* ------------------ properties of the newline policy (SpecNl) ----------- *)

RECURSIVE EachTerminatorTo(_, _)
\* t with every CRLF, every lone CR and every lone LF replaced by nl
EachTerminatorTo(t, nl) ==
  IF t = <<>> THEN <<>>
  ELSE IF Len(t) >= 2 /\ t[1] = "CR" /\ t[2] = "LF"
       THEN nl \o EachTerminatorTo(SubSeq(t, 3, Len(t)), nl)
       ELSE IF t[1] \in {"CR", "LF"}
            THEN nl \o EachTerminatorTo(Tail(t), nl)
            ELSE <<t[1]>> \o EachTerminatorTo(Tail(t), nl)

\* t holds no line terminator other than nl
OnlyTerminator(t, nl) ==
  \A i \in 1..Len(t) :
    /\ t[i] = "CR" =>
         IF nl = <<"CR">> THEN TRUE
         ELSE nl = <<"CR", "LF">> /\ i < Len(t) /\ t[i + 1] = "LF"
    /\ t[i] = "LF" =>
         IF nl = <<"LF">> THEN TRUE
         ELSE nl = <<"CR", "LF">> /\ i > 1 /\ t[i - 1] = "CR"

\* C18: with plan.newline = N the text in the written file is the rendered
\* text with every CRLF, lone CR and lone LF turned into N (plus one N at the
\* end when ensure_trailing_newline is set and it is missing), so it holds no
\* other line terminator and ends with N when asked to; normalizing a
\* normalized text again changes nothing; with newline = None the text is
\* written unchanged.
C18_NewlinePolicy ==
  /\ (calc.pc # "render" /\ ~calc.plan.set) => calc.out = calc.text
  /\ (calc.pc # "render" /\ calc.plan.set) =>
       LET nl == calc.plan.newline
           body == EachTerminatorTo(calc.text, nl)
       IN /\ OnlyTerminator(calc.out, nl)
          /\ calc.out \in {body, body \o nl}
          /\ calc.plan.ensure_trailing_newline => EndsWith(calc.out, nl)
          /\ ~calc.plan.ensure_trailing_newline => calc.out = body
  /\ calc.pc = "twice" => calc.again = calc.norm

\* ---------------------------------------------------------------------
\* Atomic write of a file X: utils/fs_utils.py write_bytes_atomic,
\* utils/json_utils.py json_atomic_write, runners/local.py
\* _json_atomic_write.  The directory maps the two names (X and the temp
\* name) to inodes, 0 for a name that does not exist; a reader holds the
\* inode it opened.  A document is DocLen chunks of one version.
\* ---------------------------------------------------------------------
DocLen == 2

MaxWrites == 2

MaxIno == MaxWrites + 1

AwKinds == {"write_bytes_atomic", "json_atomic_write", "_json_atomic_write"}

DocOf(v) == [i \in 1..DocLen |-> <<v, i>>]

Absent == << <<-1, 0>> >>

XContent(a) == IF a.dir.X = 0 THEN Absent ELSE a.ino[a.dir.X]

\* a write that opens X itself instead of a temp file
OpenTempInPlace(a) ==
  IF a.dir.X # 0
    THEN [a EXCEPT !.dir.tmp = a.dir.X, !.ino[a.dir.X] = <<>>]
    ELSE [a EXCEPT !.dir.X = a.next, !.dir.tmp = a.next,
                   !.ino[a.next] = <<>>, !.next = a.next + 1]

\* fs_utils.py:13 mkstemp creates a new file under a new name;
\* json_utils.py:26-27 and local.py:104-105 open the fixed temp name with "w",
\* which truncates a file left there by an earlier failed write
OpenTemp(a) ==
  IF a.dir.tmp # 0
    THEN [a EXCEPT !.ino[a.dir.tmp] = <<>>]
    ELSE [a EXCEPT !.dir.tmp = a.next, !.ino[a.next] = <<>>,
                   !.next = a.next + 1]

AwInit ==
  aw \in [pc : {"idle"}, kind : AwKinds, dir : [X : {0, 1}, tmp : {0}],
          ino : {[i \in 1..MaxIno |-> IF i = 1 THEN DocOf(0) ELSE <<>>]},
          next : {2}, ver : {0}, prev : {Absent}, last : {"none"},
          rd : {[pc |-> "idle", ino |-> 0, at |-> Absent]},
          seen : {Absent}]

\* the call: the payload is version ver + 1 of the document
AwBegin ==
  /\ aw.pc = "idle"
  /\ aw.ver < MaxWrites
  /\ aw' = [aw EXCEPT !.pc = "open", !.ver = aw.ver + 1,
                      !.prev = XContent(aw), !.last = "none"]
  /\ UNCHANGED <<runnerVars, mat, calc>>

AwOpenTemp ==
  /\ aw.pc = "open"
  /\ aw' = [OpenTemp(aw) EXCEPT !.pc = "write"]
  /\ UNCHANGED <<runnerVars, mat, calc>>

\* f.write / json.dump: the document reaches the file chunk by chunk
AwWriteChunk ==
  /\ aw.pc = "write"
  /\ Len(aw.ino[aw.dir.tmp]) < DocLen
  /\ aw' = [aw EXCEPT !.ino[aw.dir.tmp] =
                        Append(@, DocOf(aw.ver)[Len(@) + 1])]
  /\ UNCHANGED <<runnerVars, mat, calc>>

\* flush, fsync (fs_utils.py, json_utils.py) and close
AwClose ==
  /\ aw.pc = "write"
  /\ Len(aw.ino[aw.dir.tmp]) = DocLen
  /\ aw' = [aw EXCEPT !.pc = "replace"]
  /\ UNCHANGED <<runnerVars, mat, calc>>

\* os.replace(tmp, path)
AwReplace ==
  /\ aw.pc = "replace"
  /\ aw' = [aw EXCEPT !.dir.X = aw.dir.tmp, !.dir.tmp = 0,
                      !.pc = "idle", !.last = "ok"]
  /\ UNCHANGED <<runnerVars, mat, calc>>

\* an exception at any step up to and including os.replace;
\* write_bytes_atomic unlinks its temp file (fs_utils.py:31-37), the two JSON
\* writers leave theirs behind
AwFail ==
  /\ aw.pc \in {"open", "write", "replace"}
  /\ aw' = [aw EXCEPT !.pc = "idle", !.last = "failed",
                      !.dir.tmp = IF aw.kind = "write_bytes_atomic"
                                    THEN 0 ELSE @]
  /\ UNCHANGED <<runnerVars, mat, calc>>

\* json_utils.py:17 a reader opens X; a missing file reads as None
AwReaderOpen ==
  /\ aw.rd.pc = "idle"
  /\ IF aw.dir.X = 0
       THEN aw' = [aw EXCEPT !.seen = Absent]
       ELSE aw' = [aw EXCEPT !.rd = [pc |-> "open", ino |-> aw.dir.X,
                                     at |-> XContent(aw)]]
  /\ UNCHANGED <<runnerVars, mat, calc>>

\* json_utils.py:18 the reader reads the file it opened
AwReaderRead ==
  /\ aw.rd.pc = "open"
  /\ aw' = [aw EXCEPT !.seen = aw.ino[aw.rd.ino],
                      !.rd = [pc |-> "idle", ino |-> 0, at |-> Absent]]
  /\ UNCHANGED <<runnerVars, mat, calc>>

InitAw == RunnerIdle /\ AwInit /\ mat = "off" /\ calc = "off"

NextAw ==
  \/ AwBegin
  \/ AwOpenTemp
  \/ AwWriteChunk
  \/ AwClose
  \/ AwReplace
  \/ AwFail
  \/ AwReaderOpen
  \/ AwReaderRead

SpecAw == InitAw /\ [][NextAw]_vars

AwComplete(c) == c = Absent \/ \E v \in 0..MaxWrites : c = DocOf(v)

\* C19: during an atomic write of X, at every step and after a failure at any
\* step, X holds either the complete previous content (or is absent) or the
\* complete new document; a reader of X gets a complete document (or absence),
\* the one X held when the reader opened it; after a failed write X holds what
\* it held before the write.
C19_AtomicWrite ==
  /\ AwComplete(aw.prev)
  /\ XContent(aw) \in {aw.prev, DocOf(aw.ver)}
  /\ aw.last = "failed" => XContent(aw) = aw.prev
  /\ aw.last = "ok" => XContent(aw) = DocOf(aw.ver)
  /\ AwComplete(aw.seen)
  /\ aw.rd.pc = "open" => aw.ino[aw.rd.ino] = aw.rd.at

\* a write of json_atomic_write failed, a later write replaced X, and a
\* reader read the first document in full
C19_Witness ==
  /\ aw.ver = MaxWrites
  /\ aw.last = "ok"
  /\ aw.seen = DocOf(0)
  /\ aw.next = MaxIno
  /\ aw.kind = "json_atomic_write"

\* ---------------------------------------------------------------------
\* Lattice iteration: lattice.py.  A substitution map is a function from
\* parameter names to values; a stream is the sequence of maps an iterator
\* yields, with err set when the iteration ends in a ValueError raised by
\* _merge under ConflictPolicy.ERROR.
\* ---------------------------------------------------------------------
MaxOps == 3

ConflictPolicy == {"error", "first_wins", "last_wins"}

EmptyMap == [k \in {} |-> 0]

\* lines 75-83: a key bound to two different values raises under ERROR
MergeConflicts(base, extra, conflict) ==
  /\ conflict = "error"
  /\ \E k \in DOMAIN base \cap DOMAIN extra : base[k] # extra[k]

\* a merge that overwrites whatever the policy is
MergeOverwrite(base, extra, conflict) ==
  [k \in DOMAIN base \cup DOMAIN extra |->
     IF k \in DOMAIN extra THEN extra[k] ELSE base[k]]

\* lines 63-90 _merge
Merge(base, extra, conflict) ==
  [k \in DOMAIN base \cup DOMAIN extra |->
     IF k \notin DOMAIN base THEN extra[k]
     ELSE IF k \in DOMAIN extra /\ conflict = "last_wins" THEN extra[k]
     ELSE base[k]]

SeedOp(defaults) == [kind |-> "seed", defaults |-> defaults]

ConstOp(const) == [kind |-> "const", const |-> const]

ProductOp(name, values) ==
  [kind |-> "product", name |-> name, values |-> values]

ZipOp(columns, rows) == [kind |-> "zip", columns |-> columns, rows |-> rows]

MapOp(func) == [kind |-> "derive", func |-> func]

FilterOp(pred) == [kind |-> "filter", pred |-> pred]

\* the functions handed to derive(): copy b into e when b is bound
Func(func, u) ==
  IF func = "e_from_b" /\ "b" \in DOMAIN u THEN "e" :> u["b"] ELSE EmptyMap

Get(u, k) == IF k \in DOMAIN u THEN u[k] ELSE -1

\* the predicates handed to filter()
Pred(pred, u) ==
  IF pred = "b_not_20_or_c_not_1"
    THEN Get(u, "b") # 20 \/ Get(u, "c") # 1
    ELSE Get(u, "a") = 1

\* line 193 dict(zip(self.columns, row))
RowMap(columns, row) ==
  [k \in {columns[i] : i \in 1..Len(columns)} |->
     row[CHOOSE i \in 1..Len(columns) : columns[i] = k]]

Reverse(sq) == [i \in 1..Len(sq) |-> sq[Len(sq) + 1 - i]]

\* the inner loops run from the last value to the first
ExtrasReversed(op, u) ==
  Reverse(CASE op.kind = "seed" -> <<op.defaults>>
            [] op.kind = "const" -> <<op.const>>
            [] op.kind = "product" ->
                 [i \in 1..Len(op.values) |-> op.name :> op.values[i]]
            [] op.kind = "zip" ->
                 [i \in 1..Len(op.rows) |-> RowMap(op.columns, op.rows[i])]
            [] op.kind = "derive" -> <<Func(op.func, u)>>)

\* the maps an operation merges into one upstream map, in loop order
Extras(op, u) ==
  CASE op.kind = "seed" -> <<op.defaults>>
    [] op.kind = "const" -> <<op.const>>
    [] op.kind = "product" ->
         [i \in 1..Len(op.values) |-> op.name :> op.values[i]]
    [] op.kind = "zip" ->
         [i \in 1..Len(op.rows) |-> RowMap(op.columns, op.rows[i])]
    [] op.kind = "derive" -> <<Func(op.func, u)>>

RECURSIVE MergeEach(_, _, _)
\* the inner loop of apply: one map per extra, until _merge raises
MergeEach(u, extras, conflict) ==
  IF extras = <<>> THEN [maps |-> <<>>, err |-> FALSE]
  ELSE IF MergeConflicts(u, Head(extras), conflict)
    THEN [maps |-> <<>>, err |-> TRUE]
  ELSE LET rest == MergeEach(u, Tail(extras), conflict)
       IN  [maps |-> <<Merge(u, Head(extras), conflict)>> \o rest.maps,
            err |-> rest.err]

RECURSIVE ApplyFrom(_, _, _)
\* the outer loop of apply: for u in upstream
ApplyFrom(op, maps, conflict) ==
  IF maps = <<>> THEN [maps |-> <<>>, err |-> FALSE]
  ELSE LET first ==
             IF op.kind = "filter"
               THEN [maps |-> IF Pred(op.pred, Head(maps))
                                THEN <<Head(maps)>> ELSE <<>>,
                     err |-> FALSE]
               ELSE MergeEach(Head(maps), Extras(op, Head(maps)), conflict)
       IN  IF first.err THEN first
           ELSE LET rest == ApplyFrom(op, Tail(maps), conflict)
                IN  [maps |-> first.maps \o rest.maps, err |-> rest.err]

\* op.apply(upstream); _SeedOp ignores its upstream and starts from {}
Apply(op, upstream, conflict) ==
  IF op.kind = "seed"
    THEN MergeEach(EmptyMap, Extras(op, EmptyMap), conflict)
    ELSE LET r == ApplyFrom(op, upstream.maps, conflict)
         IN  [maps |-> r.maps, err |-> r.err \/ upstream.err]

LatOps ==
  { ConstOp("a" :> 1),
    ProductOp("b", <<10, 20>>),
    ProductOp("a", <<1, 2>>),
    ZipOp(<<"c", "d">>, << <<1, 3>>, <<2, 4>> >>),
    MapOp("e_from_b"),
    FilterOp("b_not_20_or_c_not_1"),
    FilterOp("a_is_1") }

\* set_constants({a:1}).add_product(b,[10,20]).add_zip({c:[1,2],d:[3,4]})
\*   .filter(b != 20 or c != 1)
ExampleChain ==
  << ConstOp("a" :> 1),
     ProductOp("b", <<10, 20>>),
     ZipOp(<<"c", "d">>, << <<1, 3>>, <<2, 4>> >>),
     FilterOp("b_not_20_or_c_not_1") >>

LatChains == UNION {[1..n -> LatOps] : n \in 0..MaxOps} \cup {ExampleChain}

NoStream == [maps |-> <<>>, err |-> FALSE]

\* lines 364-372, 385-428: a Lattice is its seed followed by the appended ops
LatInit ==
  \E chain \in LatChains, defaults \in {EmptyMap, "a" :> 1},
     conflict \in ConflictPolicy :
    calc = [pc |-> "iter", ops |-> <<SeedOp(defaults)>> \o chain,
            conflict |-> conflict, i |-> 0,
            upstream |-> NoStream, out |-> NoStream]

\* lines 452-453: upstream = op.apply(upstream)
LatApply ==
  /\ calc.pc = "iter"
  /\ calc.i < Len(calc.ops)
  /\ calc' = [calc EXCEPT
                !.i = calc.i + 1,
                !.upstream = calc.out,
                !.out = Apply(calc.ops[calc.i + 1], calc.out, calc.conflict)]
  /\ UNCHANGED <<runnerVars, mat, aw>>

\* line 454: yield from upstream
LatYield ==
  /\ calc.pc = "iter"
  /\ calc.i = Len(calc.ops)
  /\ calc' = [calc EXCEPT !.pc = "done"]
  /\ UNCHANGED <<runnerVars, mat, aw>>

InitLat == RunnerIdle /\ LatInit /\ mat = "off" /\ aw = "off"

NextLat == LatApply \/ LatYield

SpecLat == InitLat /\ [][NextLat]_vars

\* the output of an operation that expands each upstream map into n maps, in
\* nested-loop order: the maps of upstream map j are at (j-1)*n+1 .. j*n
NestedOrder(up, out, n, extra(_, _)) ==
  /\ Len(out) = Len(up) * n
  /\ \A j \in 1..Len(up), k \in 1..n :
       out[(j - 1) * n + k] = Merge(up[j], extra(up[j], k), calc.conflict)

\* the maps the example must yield, in order
ExampleMaps ==
  << [a |-> 1, b |-> 10, c |-> 1, d |-> 3],
     [a |-> 1, b |-> 10, c |-> 2, d |-> 4],
     [a |-> 1, b |-> 20, c |-> 2, d |-> 4] >>

\* C20: iterating a Lattice yields maps in the nested-loop order of its
\* operation chain: every operation that ends without a conflict error maps
\* its upstream sequence so that Product yields, for each upstream map in
\* order, one map per value in the given order, Zip one map per row in row
\* order, Const and Derive one map per upstream map in the same order, and
\* Filter the retained maps in their upstream order; the example chain yields
\* exactly its three maps in the stated order.
C20_IterationOrder ==
  /\ (calc.i >= 2 /\ ~calc.out.err) =>
       LET op == calc.ops[calc.i]
           up == calc.upstream.maps
           out == calc.out.maps
       IN  CASE op.kind = "product" ->
                  NestedOrder(up, out, Len(op.values),
                              LAMBDA u, k : op.name :> op.values[k])
             [] op.kind = "zip" ->
                  NestedOrder(up, out, Len(op.rows),
                              LAMBDA u, k : RowMap(op.columns, op.rows[k]))
             [] op.kind = "const" ->
                  NestedOrder(up, out, 1, LAMBDA u, k : op.const)
             [] op.kind = "derive" ->
                  NestedOrder(up, out, 1, LAMBDA u, k : Func(op.func, u))
             [] op.kind = "filter" ->
                  out = SelectSeq(up, LAMBDA u : Pred(op.pred, u))
  /\ (calc.pc = "done" /\ Tail(calc.ops) = ExampleChain) =>
       /\ ~calc.out.err
       /\ calc.out.maps = ExampleMaps

\* the example chain has been iterated to its end
C20_Witness ==
  /\ calc.pc = "done"
  /\ Tail(calc.ops) = ExampleChain
  /\ Len(calc.out.maps) = 3

\* the maps operation op merges into upstream map u (none for a filter)
ExtrasOf(op, u) == IF op.kind = "filter" THEN <<>> ELSE Extras(op, u)

\* upstream map u binds key k to a value different from the one extra assigns
Differs(u, extra, k) == k \in DOMAIN u /\ k \in DOMAIN extra /\ u[k] # extra[k]

\* C21: when a Const, Product, Zip or Derive operation assigns a key that the
\* upstream map binds to a different value, iteration raises under ERROR,
\* the existing value is kept under FIRST_WINS and the new value replaces it
\* under LAST_WINS; without such a key no error is raised (an equal value is
\* not a conflict), and FIRST_WINS and LAST_WINS never raise.
C21_ConflictPolicy ==
  calc.i >= 2 =>
    LET op == calc.ops[calc.i]
        up == calc.upstream.maps
        out == calc.out.maps
        clash == \E j \in 1..Len(up) :
                   \E x \in 1..Len(ExtrasOf(op, up[j])) :
                     \E k \in DOMAIN up[j] :
                       Differs(up[j], ExtrasOf(op, up[j])[x], k)
    IN  /\ calc.conflict = "error" =>
             (calc.out.err <=> (clash \/ calc.upstream.err))
        /\ calc.conflict # "error" => ~calc.out.err
        /\ (op.kind # "filter" /\ ~calc.out.err) =>
             \A j \in 1..Len(up) :
               LET ex == Extras(op, up[j])
                   n == Len(ex)
               IN  \A x \in 1..n :
                     LET o == out[(j - 1) * n + x]
                     IN  /\ DOMAIN o = DOMAIN up[j] \cup DOMAIN ex[x]
                         /\ \A k \in DOMAIN o :
                              o[k] = IF k \notin DOMAIN ex[x] THEN up[j][k]
                                     ELSE IF k \notin DOMAIN up[j] THEN ex[x][k]
                                     ELSE IF calc.conflict = "first_wins"
                                       THEN up[j][k]
                                     ELSE ex[x][k]

\* a product over a key bound upstream has kept the earlier value under
\* FIRST_WINS
C21_Witness ==
  /\ calc.i >= 2
  /\ calc.conflict = "first_wins"
  /\ calc.ops[calc.i].kind = "product"
  /\ \E j \in 1..Len(calc.upstream.maps) :
       Differs(calc.upstream.maps[j], Extras(calc.ops[calc.i], calc.upstream.maps[j])[2], "a")
  /\ \A j \in 1..Len(calc.out.maps) : calc.out.maps[j]["a"] = 1

\* ---------------------------------------------------------------------
\* _ConstrainedProductOp.apply: lattice.py 293-338.  The recursion of dfs is
\* a stack of frames, one per key being expanded; acc is the one mutable
\* dict all frames share; a yielded map is a copy of acc.
\* ---------------------------------------------------------------------
MaxKeys == 2

SpaceKeys == <<"x", "y", "z">>

ValueLists == {<<>>, <<1>>, <<1, 2>>, <<2, 1>>, <<1, 1>>}

OkNames == {"always", "x_differs_from_y", "x_is_1", "y_is_bound"}

\* the constraint predicates handed to add_constrained_product, on a partial
\* assignment
Ok(ok, acc) ==
  CASE ok = "always" -> TRUE
    [] ok = "x_differs_from_y" ->
         ("x" \in DOMAIN acc /\ "y" \in DOMAIN acc) => acc["x"] # acc["y"]
    [] ok = "x_is_1" -> "x" \in DOMAIN acc => acc["x"] = 1
    [] ok = "y_is_bound" -> "y" \in DOMAIN acc

\* a search that descends without asking ok
OkNotAsked(ok, acc) == TRUE

\* line 323: if self.ok(acc)
OkHolds(ok, acc) == Ok(ok, acc)

CpInit ==
  \E n \in 0..MaxKeys :
    \E values \in [1..n -> ValueLists], ok \in OkNames,
       conflict \in ConflictPolicy,
       upstream \in {<<EmptyMap>>, <<"a" :> 1, "a" :> 2>>, <<"x" :> 1>>} :
      calc = [pc |-> "next_u", keys |-> SubSeq(SpaceKeys, 1, n),
              values |-> values, ok |-> ok, conflict |-> conflict,
              upstream |-> upstream, ui |-> 0, acc |-> EmptyMap,
              frames |-> <<>>, out |-> <<>>]

\* lines 335-338: for u in upstream: base = dict(u); yield from dfs(0, base)
CpNextUpstream ==
  /\ calc.pc = "next_u"
  /\ IF calc.ui < Len(calc.upstream)
       THEN calc' = [calc EXCEPT !.ui = calc.ui + 1,
                                 !.acc = calc.upstream[calc.ui + 1],
                                 !.frames = <<>>, !.pc = "dfs"]
       ELSE calc' = [calc EXCEPT !.pc = "done"]
  /\ UNCHANGED <<runnerVars, mat, aw>>

\* lines 298-301: a full assignment is yielded as a copy of acc; otherwise the
\* loop over the values of key idx begins
CpEnter ==
  /\ calc.pc = "dfs"
  /\ IF Len(calc.frames) = Len(calc.keys)
       THEN calc' = [calc EXCEPT
                       !.out = Append(@, [map |-> calc.acc, ui |-> calc.ui,
                                          path |-> [d \in 1..Len(calc.frames)
                                                      |-> calc.frames[d].vi]]),
                       !.pc = "ret"]
       ELSE calc' = [calc EXCEPT
                       !.frames = Append(@, [vi |-> 0, had |-> FALSE,
                                             old |-> 0, did |-> FALSE]),
                       !.pc = "loop"]
  /\ UNCHANGED <<runnerVars, mat, aw>>

\* lines 302-324: the next value of the key is bound under the conflict
\* policy, then ok decides whether to descend
CpLoop ==
  /\ calc.pc = "loop"
  /\ LET idx == Len(calc.frames)
         k == calc.keys[idx]
         f == calc.frames[idx]
         vals == calc.values[idx]
     IN  IF f.vi = Len(vals)
           THEN calc' = [calc EXCEPT !.frames = SubSeq(@, 1, idx - 1),
                                     !.pc = "ret"]
         ELSE
           LET v == vals[f.vi + 1]
               had == k \in DOMAIN calc.acc
               old == IF had THEN calc.acc[k] ELSE 0
               differs == had /\ old # v
           IN  IF differs /\ calc.conflict = "error"
                 THEN calc' = [calc EXCEPT !.pc = "raised"]
               ELSE IF differs /\ calc.conflict = "first_wins"
                 THEN calc' = [calc EXCEPT !.frames[idx].vi = f.vi + 1]
               ELSE
                 LET did == differs \/ ~had
                     acc2 == IF did THEN Merge(calc.acc, k :> v, "last_wins")
                             ELSE calc.acc
                 IN  calc' = [calc EXCEPT
                                !.acc = acc2,
                                !.frames[idx] = [vi |-> f.vi + 1, had |-> had,
                                                 old |-> old, did |-> did],
                                !.pc = IF OkHolds(calc.ok, acc2)
                                         THEN "dfs" ELSE "back"]
  /\ UNCHANGED <<runnerVars, mat, aw>>

\* the generator of the level below is exhausted
CpReturn ==
  /\ calc.pc = "ret"
  /\ calc' = [calc EXCEPT !.pc = IF calc.frames = <<>> THEN "next_u"
                                 ELSE "back"]
  /\ UNCHANGED <<runnerVars, mat, aw>>

\* lines 326-333: backtrack
CpBacktrack ==
  /\ calc.pc = "back"
  /\ LET idx == Len(calc.frames)
         k == calc.keys[idx]
         f == calc.frames[idx]
     IN  calc' = [calc EXCEPT
                    !.acc = IF ~f.did THEN @
                            ELSE IF f.had
                              THEN Merge(@, k :> f.old, "last_wins")
                            ELSE [x \in DOMAIN @ \ {k} |-> @[x]],
                    !.pc = "loop"]
  /\ UNCHANGED <<runnerVars, mat, aw>>

InitCp == RunnerIdle /\ CpInit /\ mat = "off" /\ aw = "off"

NextCp == CpNextUpstream \/ CpEnter \/ CpLoop \/ CpReturn \/ CpBacktrack

SpecCp == InitCp /\ [][NextCp]_vars

\* the value positions of every total assignment over the space
CpPaths == {t \in [1..Len(calc.keys) -> 1..2] :
              \A d \in 1..Len(calc.keys) : t[d] <= Len(calc.values[d])}

\* u with the first m keys bound to the values at positions t
CpAssign(u, t, m) ==
  [k \in DOMAIN u \cup {calc.keys[d] : d \in 1..m} |->
     IF k \in DOMAIN u THEN u[k]
     ELSE LET d == CHOOSE d \in 1..m : calc.keys[d] = k
          IN  calc.values[d][t[d]]]

\* ok holds after each key is added, in key order
CpPrefixOk(u, t) ==
  \A m \in 1..Len(calc.keys) : Ok(calc.ok, CpAssign(u, t, m))

LexLess(s, t) ==
  \E d \in 1..Len(s) : s[d] < t[d] /\ \A e \in 1..(d - 1) : s[e] = t[e]

\* C22: for each upstream map u whose keys are disjoint from the space, the
\* maps ConstrainedProduct has yielded for u when the search ends are the
\* total assignments (merged into u) on whose depth-first path ok held after
\* every key, each once, in lexicographic order of the value positions; maps
\* yielded earlier are not changed by later backtracking.
C22_ConstrainedProduct ==
  calc.pc = "done" =>
    \A ui \in 1..Len(calc.upstream) :
      LET u == calc.upstream[ui]
          mine == SelectSeq(calc.out, LAMBDA e : e.ui = ui)
      IN  (DOMAIN u \cap {calc.keys[d] : d \in 1..Len(calc.keys)} = {}) =>
            /\ {mine[i].path : i \in 1..Len(mine)} =
                 {t \in CpPaths : CpPrefixOk(u, t)}
            /\ \A i \in 1..Len(mine) :
                 mine[i].map = CpAssign(u, mine[i].path, Len(calc.keys))
            /\ \A i \in 1..(Len(mine) - 1) :
                 LexLess(mine[i].path, mine[i + 1].path)

\* a search over two keys that pruned a branch and still yielded two maps for
\* one upstream map
C22_Witness ==
  /\ calc.pc = "done"
  /\ calc.ok = "x_differs_from_y"
  /\ Len(calc.keys) = 2
  /\ Len(calc.upstream) = 1
  /\ calc.upstream[1] = EmptyMap
  /\ Len(calc.out) = 2

\* ---------------------------------------------------------------------
\* Lattice.exact_cardinality: lattice.py 482-489.  The lattice yields n maps;
\* limit is None (set = FALSE) or a number.
\* ---------------------------------------------------------------------
MaxStream == 4

MaxLimit == 5

\* line 485: count = 0
CardInit ==
  \E n \in 0..MaxStream, set \in BOOLEAN, value \in 0..MaxLimit :
    /\ set \/ value = 0
    /\ calc = [pc |-> "loop", n |-> n,
               limit |-> [set |-> set, value |-> value],
               pulled |-> 0, count |-> 0]

\* lines 486-488: enumerate(self, start=1) binds count to the next index, then
\* the limit is tested
CardNext ==
  /\ calc.pc = "loop"
  /\ calc.pulled < calc.n
  /\ calc' = [calc EXCEPT
                !.pulled = calc.pulled + 1,
                !.count = calc.pulled + 1,
                !.pc = IF calc.limit.set /\ calc.pulled + 1 >= calc.limit.value
                         THEN "returned" ELSE "loop"]
  /\ UNCHANGED <<runnerVars, mat, aw>>

\* line 489: the stream is exhausted, return count
CardExhausted ==
  /\ calc.pc = "loop"
  /\ calc.pulled = calc.n
  /\ calc' = [calc EXCEPT !.pc = "returned"]
  /\ UNCHANGED <<runnerVars, mat, aw>>

InitCard == RunnerIdle /\ CardInit /\ mat = "off" /\ aw = "off"

NextCard == CardNext \/ CardExhausted

SpecCard == InitCard /\ [][NextCard]_vars

Min(a, b) == IF a <= b THEN a ELSE b

\* C23: exact_cardinality(limit) returns min(n, limit) for every limit >= 0,
\* n being the number of maps the lattice yields, and n without a limit.
C23_ExactCardinality ==
  calc.pc = "returned" =>
    calc.count = IF calc.limit.set THEN Min(calc.n, calc.limit.value)
                 ELSE calc.n

\* ---------------------------------------------------------------------
\* _DedupOp.apply: lattice.py 259-269.
\* ---------------------------------------------------------------------
MaxUpstream == 3

DedupMaps ==
  {EmptyMap, "a" :> 1, "a" :> 2, [a |-> 1, b |-> 1], [a |-> 1, b |-> 2]}

\* lines 262-265: sorted() compares the (ParamName, value) tuples of a map
\* with two or more keys; the keys differ, so the comparison reaches
\* ParamName < ParamName, which ParamName (core.py 86-106, no ordering
\* methods) does not support: TypeError, in the try and again in the
\* fallback.  A map with at most one key is sorted without a comparison.
SortedRaises(u) == Cardinality(DOMAIN u) >= 2

DedupInit ==
  \E n \in 0..MaxUpstream :
    \E upstream \in [1..n -> DedupMaps] :
      calc = [pc |-> "loop", pass |-> 1, upstream |-> upstream, i |-> 0,
              seen |-> {}, out |-> <<>>, first |-> <<>>]

\* lines 261-269: one upstream map
DedupNext ==
  /\ calc.pc = "loop"
  /\ calc.i < Len(calc.upstream)
  /\ LET u == calc.upstream[calc.i + 1]
     IN  IF SortedRaises(u)
           THEN calc' = [calc EXCEPT !.pc = "raised"]
         ELSE IF u \in calc.seen
           THEN calc' = [calc EXCEPT !.i = calc.i + 1]
         ELSE calc' = [calc EXCEPT !.i = calc.i + 1,
                                   !.seen = calc.seen \cup {u},
                                   !.out = Append(calc.out, u)]
  /\ UNCHANGED <<runnerVars, mat, aw>>

\* the upstream is exhausted
DedupEnd ==
  /\ calc.pc = "loop"
  /\ calc.i = Len(calc.upstream)
  /\ calc' = [calc EXCEPT !.pc = "done"]
  /\ UNCHANGED <<runnerVars, mat, aw>>

\* lattice.py 430-432: dedup() appended a second time runs over the output
\* of the first
DedupAgain ==
  /\ calc.pc = "done"
  /\ calc.pass = 1
  /\ calc' = [calc EXCEPT !.pc = "loop", !.pass = 2, !.upstream = calc.out,
                          !.first = calc.out, !.i = 0, !.seen = {},
                          !.out = <<>>]
  /\ UNCHANGED <<runnerVars, mat, aw>>

InitDedup == RunnerIdle /\ DedupInit /\ mat = "off" /\ aw = "off"

NextDedup == DedupNext \/ DedupEnd \/ DedupAgain

SpecDedup == InitDedup /\ [][NextDedup]_vars

\* the positions of the first occurrences in a stream
FirstAt(up) == {i \in 1..Len(up) : \A j \in 1..(i - 1) : up[j] # up[i]}

\* C24: Dedup yields each distinct map once, for maps with any number of
\* keys: it does not raise, it keeps exactly the first occurrences in their
\* upstream order, and a second Dedup yields the stream of the first.
C24_Dedup ==
  /\ calc.pc # "raised"
  /\ calc.pc = "done" =>
       /\ Len(calc.out) = Cardinality(FirstAt(calc.upstream))
       /\ \A i \in 1..Len(calc.out) :
            \E p \in FirstAt(calc.upstream) :
              /\ calc.upstream[p] = calc.out[i]
              /\ Cardinality({q \in FirstAt(calc.upstream) : q <= p}) = i
       /\ calc.pass = 2 => calc.out = calc.first

\* ---------------------------------------------------------------------
\* render: render.py 27-38, 270-282; domains: core.py 39-74.  A value is a
\* Python type tag t with a payload v (a number, or the code of a string);
\* a parameter is its py_type, its domain and its default.
\* ---------------------------------------------------------------------
PyValues ==
  [t : {"int", "float", "str"}, v : 0..2] \cup [t : {"bool"}, v : 0..1]

\* isinstance(value, (int, float)): bool is a subclass of int
IsNumber(val) == val.t \in {"int", "float", "bool"}

\* isinstance(svalue, param.py_type)
IsInstance(val, py_type) ==
  val.t = py_type \/ (val.t = "bool" /\ py_type = "int")

\* float('nan'), for which <, == and > are all false
NaN == 99

PyLt(a, b) == a # NaN /\ b # NaN /\ a < b

PyEq(a, b) == a # NaN /\ b # NaN /\ a = b

\* core.py 46-55 DomainInterval.contains
IntervalContains(dom, val) ==
  IF ~IsNumber(val) \/ val.t = "bool" THEN FALSE
  ELSE IF PyLt(val.v, dom.lower)
          \/ (PyEq(val.v, dom.lower) /\ ~dom.inclusive_lower)
    THEN FALSE
  ELSE IF PyLt(dom.upper, val.v)
          \/ (PyEq(val.v, dom.upper) /\ ~dom.inclusive_upper)
    THEN FALSE
  ELSE TRUE

\* core.py 70-74 DomainSet.contains: a bool needs the identical object, which
\* a set of strings and numbers does not hold; numbers compare by value
SetContains(dom, val) ==
  IF val.t = "bool" THEN FALSE
  ELSE \E e \in dom.values :
         e.v = val.v /\ ((e.t = "str") <=> (val.t = "str"))

DomainContains(dom, val) ==
  CASE dom.kind = "interval" -> IntervalContains(dom, val)
    [] dom.kind = "set" -> SetContains(dom, val)

NoDomain == [kind |-> "none"]

Interval(lo, hi, il, iu) ==
  [kind |-> "interval", lower |-> lo, upper |-> hi,
   inclusive_lower |-> il, inclusive_upper |-> iu]

RenderParams ==
  { [py_type |-> "int", domain |-> NoDomain, default |-> [t |-> "int", v |-> 1]],
    [py_type |-> "int", domain |-> Interval(0, 1, TRUE, TRUE),
     default |-> [t |-> "int", v |-> 1]],
    [py_type |-> "float", domain |-> NoDomain,
     default |-> [t |-> "float", v |-> 1]],
    [py_type |-> "float", domain |-> Interval(0, 2, FALSE, TRUE),
     default |-> [t |-> "float", v |-> 1]],
    [py_type |-> "bool", domain |-> NoDomain,
     default |-> [t |-> "bool", v |-> 1]],
    [py_type |-> "str", domain |-> NoDomain, default |-> [t |-> "str", v |-> 1]],
    [py_type |-> "str",
     domain |-> [kind |-> "set", values |-> {[t |-> "str", v |-> 0],
                                             [t |-> "str", v |-> 1]}],
     default |-> [t |-> "str", v |-> 1]] }

\* the first reason _validate_map raises for one item, "ok" if none
ValidateItem(params, sname, svalue) ==
  IF sname \notin DOMAIN params THEN "name_not_found"
  ELSE IF params[sname].domain.kind # "none"
          /\ ~DomainContains(params[sname].domain, svalue)
    THEN "not_in_domain"
  ELSE IF ~IsInstance(svalue, params[sname].py_type) THEN "wrong_type"
  ELSE "ok"

\* render.py 27-38 _validate_map returns normally
ValidateMap(params, subs) ==
  \A sname \in DOMAIN subs : ValidateItem(params, sname, subs[sname]) = "ok"

\* the template has the one parameter p; subs binds any of p and q
RenderInit ==
  \E param \in RenderParams :
    \E keys \in SUBSET {"p", "q"} :
      \E subs \in [keys -> PyValues] :
        calc = [pc |-> "call", params |-> [k \in {"p"} |-> param],
                subs |-> subs, used |-> EmptyMap]

\* line 271
RenderValidate ==
  /\ calc.pc = "call"
  /\ calc' = [calc EXCEPT !.pc = IF ValidateMap(calc.params, calc.subs)
                                   THEN "validated" ELSE "raised"]
  /\ UNCHANGED <<runnerVars, mat, aw>>

\* lines 273-282: every parameter site takes subs.get(name, default)
RenderChunks ==
  /\ calc.pc = "validated"
  /\ calc' = [calc EXCEPT
                !.used = [k \in DOMAIN calc.params |->
                            IF k \in DOMAIN calc.subs THEN calc.subs[k]
                            ELSE calc.params[k].default],
                !.pc = "rendered"]
  /\ UNCHANGED <<runnerVars, mat, aw>>

InitRender == RunnerIdle /\ RenderInit /\ mat = "off" /\ aw = "off"

NextRender == RenderValidate \/ RenderChunks

SpecRender == InitRender /\ [][NextRender]_vars

\* what the claim rejects: an unknown key, a value whose type is not the
\* parameter's type (a bool is not an int), a value outside the domain
C25_Rejected(params, subs) ==
  \E k \in DOMAIN subs :
    \/ k \notin DOMAIN params
    \/ subs[k].t # params[k].py_type
    \/ params[k].domain.kind # "none"
         /\ ~DomainContains(params[k].domain, subs[k])

MaxItems == 4

PhLen == 2

TplItems ==
  {[kind |-> "lit"], [kind |-> "ph", name |-> "a", valid |-> TRUE],
   [kind |-> "ph", name |-> "b", valid |-> TRUE],
   [kind |-> "ph", name |-> "a", valid |-> FALSE]}

ItemLen(item) == IF item.kind = "lit" THEN 1 ELSE PhLen

RECURSIVE TextLen(_)
\* len(source.contents)
TextLen(items) ==
  IF items = <<>> THEN 0 ELSE ItemLen(Head(items)) + TextLen(Tail(items))

\* line 35 PLACEHOLDER_RE.finditer: the matches in order, with their outer
\* spans (placeholder/model.py 64-69 Placeholder.from_match)
Matches(items) ==
  LET at == {i \in 1..Len(items) : items[i].kind = "ph"}
      nth(j) == CHOOSE i \in at : Cardinality({x \in at : x <= i}) = j
  IN  [j \in 1..Cardinality(at) |->
         LET i == nth(j)
             start == TextLen(SubSeq(items, 1, i - 1))
         IN  [name |-> items[i].name, valid |-> items[i].valid,
              start |-> start, end |-> start + PhLen]]

\* a span appended whether or not it is empty
AppendSpanAlways(elements, start, end) ==
  Append(elements, [kind |-> "span", start |-> start, end |-> end])

\* lines 30-33 _append_span
AppendSpan(elements, start, end) ==
  IF end > start
    THEN Append(elements, [kind |-> "span", start |-> start, end |-> end])
    ELSE elements

\* source.py 62-67: a Source is never empty
TplInit ==
  \E n \in 1..MaxItems :
    \E items \in [1..n -> TplItems] :
      calc = [pc |-> "scan", items |-> items, m |-> 0, last |-> 0,
              elements |-> <<>>, params |-> EmptyMap]

\* lines 35-43: one match of the loop
TplMatch ==
  /\ calc.pc = "scan"
  /\ calc.m < Len(Matches(calc.items))
  /\ LET ph == Matches(calc.items)[calc.m + 1]
         spanned == AppendSpan(calc.elements, calc.last, ph.start)
     IN  IF ~ph.valid
           THEN calc' = [calc EXCEPT !.elements = spanned, !.last = ph.end,
                                     !.pc = "raised"]
           ELSE calc' = [calc EXCEPT
                           !.m = calc.m + 1,
                           !.last = ph.end,
                           !.params = Merge(calc.params, ph.name :> calc.m + 1,
                                            "last_wins"),
                           !.elements = Append(spanned,
                                               [kind |-> "name",
                                                name |-> ph.name])]
  /\ UNCHANGED <<runnerVars, mat, aw>>

\* lines 45-51: the trailing span, then the Template is returned
TplReturn ==
  /\ calc.pc = "scan"
  /\ calc.m = Len(Matches(calc.items))
  /\ calc' = [calc EXCEPT
                !.elements = AppendSpan(calc.elements, calc.last,
                                        TextLen(calc.items)),
                !.pc = "returned"]
  /\ UNCHANGED <<runnerVars, mat, aw>>

InitTpl == RunnerIdle /\ TplInit /\ mat = "off" /\ aw = "off"

NextTpl == TplMatch \/ TplReturn

SpecTpl == InitTpl /\ [][NextTpl]_vars

ElementSpan(i) ==
  LET e == calc.elements[i]
  IN  IF e.kind = "span" THEN [start |-> e.start, end |-> e.end]
      ELSE LET j == Cardinality({x \in 1..i : calc.elements[x].kind = "name"})
               ph == Matches(calc.items)[j]
           IN  [start |-> ph.start, end |-> ph.end]

\* C27: in the sequence from_source returns, literal spans are non-empty, no
\* two literal spans are next to each other, every parameter name element is
\* a key of params, and the literal spans and the placeholders' outer spans,
\* in sequence order, start at 0, each begin where the one before ends (so
\* they increase and do not overlap) and end at |text|.
C27_SequenceShape ==
  calc.pc = "returned" =>
    LET n == Len(calc.elements)
    IN  /\ n >= 1
        /\ ElementSpan(1).start = 0
        /\ ElementSpan(n).end = TextLen(calc.items)
        /\ \A i \in 1..n :
             /\ ElementSpan(i).start < ElementSpan(i).end
             /\ i < n => ElementSpan(i).end = ElementSpan(i + 1).start
             /\ (i < n /\ calc.elements[i].kind = "span") =>
                  calc.elements[i + 1].kind = "name"
             /\ calc.elements[i].kind = "name" =>
                  calc.elements[i].name \in DOMAIN calc.params

\* a returned sequence with two adjacent placeholders between literal text
C27_Witness ==
  /\ calc.pc = "returned"
  /\ Len(calc.elements) = 4
  /\ calc.elements[1].kind = "span"
  /\ calc.elements[2].kind = "name"
  /\ calc.elements[3].kind = "name"
  /\ calc.elements[4].kind = "span"

\* ---------------------------------------------------------------------
\* Source.pos_to_line_col: source.py 44-51, 93-109.  Texts are the non-empty
\* sequences over CR, LF and another character (source.py 62-67).
\* ---------------------------------------------------------------------
\* the length of the first part str.splitlines(keepends=True) cuts from a
\* non-empty text: up to and including the first LF, CR LF or lone CR, the
\* whole text if it has none
FirstPartLen(t) ==
  LET terms == {i \in 1..Len(t) : t[i] \in {"CR", "LF"}}
  IN  IF terms = {} THEN Len(t)
      ELSE LET i == CHOOSE i \in terms : \A j \in terms : i <= j
           IN  IF t[i] = "CR" /\ i < Len(t) /\ t[i + 1] = "LF" THEN i + 1
               ELSE i

RECURSIVE LineStartsFrom(_, _)
\* lines 47-50: pos += len(part); starts.append(pos)
LineStartsFrom(t, pos) ==
  IF t = <<>> THEN <<>>
  ELSE LET n == FirstPartLen(t)
       IN  <<pos + n>> \o LineStartsFrom(SubSeq(t, n + 1, Len(t)), pos + n)

\* source.py 44-51 _compute_line_starts
ComputeLineStarts(t) == <<0>> \o LineStartsFrom(t, 0)

\* bisect.bisect_right on the sorted line starts
BisectRight(ls, pos) == Cardinality({i \in 1..Len(ls) : ls[i] <= pos})

PosInit ==
  \E text \in Texts \ {<<>>} :
    \E pos \in (0 - 1)..(Len(text) + 1) :
      calc = [pc |-> "call", text |-> text, pos |-> pos, ls |-> <<>>,
              line |-> 0, col |-> 0]

\* lines 104-107: the range check, then the cached line starts
PosLineStarts ==
  /\ calc.pc = "call"
  /\ IF ~(0 <= calc.pos /\ calc.pos <= Len(calc.text))
       THEN calc' = [calc EXCEPT !.pc = "raised"]
       ELSE calc' = [calc EXCEPT !.ls = ComputeLineStarts(calc.text),
                                 !.pc = "lookup"]
  /\ UNCHANGED <<runnerVars, mat, aw>>

\* lines 108-109
PosLookup ==
  /\ calc.pc = "lookup"
  /\ LET line_idx == BisectRight(calc.ls, calc.pos) - 1
     IN  calc' = [calc EXCEPT !.line = line_idx + 1,
                              !.col = calc.pos - calc.ls[line_idx + 1] + 1,
                              !.pc = "returned"]
  /\ UNCHANGED <<runnerVars, mat, aw>>

InitPos == RunnerIdle /\ PosInit /\ mat = "off" /\ aw = "off"

NextPos == PosLineStarts \/ PosLookup

SpecPos == InitPos /\ [][NextPos]_vars

\* the positions right after a line terminator (LF, CR LF, or a CR that no
\* LF follows) that lies wholly before p
ScanLineStarts(t, p) ==
  {i \in 1..p : \/ t[i] = "LF"
                \/ t[i] = "CR" /\ (i = Len(t) \/ t[i + 1] # "LF")}

Max(S) == CHOOSE x \in S : \A y \in S : y <= x

\* C28: for every non-empty text and 0 <= p <= |text|, pos_to_line_col(p) is
\* the 1-indexed (line, column) of a linear scan that counts the line
\* terminators before p, also at p = |text| with and without a final
\* newline; a position outside [0, |text|] is rejected.
C28_LineColMatchesScan ==
  /\ calc.pc = "raised" <=>
       (calc.pc # "call" /\ (calc.pos < 0 \/ calc.pos > Len(calc.text)))
  /\ calc.pc = "returned" =>
       LET before == ScanLineStarts(calc.text, calc.pos)
       IN  /\ calc.line = 1 + Cardinality(before)
           /\ calc.col = calc.pos - Max(before \cup {0}) + 1

\* ---------------------------------------------------------------------
\* Interval domains: placeholder/resolve.py 51-77 _resolve_interval and
\* core.py 39-55 DomainInterval.contains.
\* ---------------------------------------------------------------------
MaxEnd == 2

IntervalValues == PyValues \cup {[t |-> "float", v |-> NaN]}

IvInit ==
  \E lower \in 0..MaxEnd, upper \in 0..MaxEnd, lpar \in {"[", "("},
     rpar \in {"]", ")"}, val \in IntervalValues :
    calc = [pc |-> "resolve",
            unres |-> [lower |-> lower, upper |-> upper, lpar |-> lpar,
                       rpar |-> rpar],
            val |-> val, dom |-> NoDomain, result |-> FALSE]

\* resolve.py 55-77; coercing a bound to int or float keeps its value
IvResolve ==
  /\ calc.pc = "resolve"
  /\ LET inclusive_lower == calc.unres.lpar = "["
         inclusive_upper == calc.unres.rpar = "]"
         lower == calc.unres.lower
         upper == calc.unres.upper
     IN  IF upper < lower
            \/ (upper = lower /\ (~inclusive_lower \/ ~inclusive_upper))
           THEN calc' = [calc EXCEPT !.pc = "raised"]
           ELSE calc' = [calc EXCEPT
                           !.dom = Interval(lower, upper, inclusive_lower,
                                            inclusive_upper),
                           !.pc = "resolved"]
  /\ UNCHANGED <<runnerVars, mat, aw>>

\* core.py 46-55
IvContains ==
  /\ calc.pc = "resolved"
  /\ calc' = [calc EXCEPT !.result = IntervalContains(calc.dom, calc.val),
                          !.pc = "checked"]
  /\ UNCHANGED <<runnerVars, mat, aw>>

InitIv == RunnerIdle /\ IvInit /\ mat = "off" /\ aw = "off"

NextIv == IvResolve \/ IvContains

SpecIv == InitIv /\ [][NextIv]_vars

\* C29: contains(v) is true exactly when v is an int or float that is not a
\* boolean, lies between lower and upper and differs from every exclusive
\* endpoint; the resolver accepts an interval with equal endpoints only if
\* both ends are inclusive, and it then contains exactly that point.
C29_IntervalContains ==
  /\ (calc.pc # "resolve" /\ calc.unres.lower = calc.unres.upper) =>
       (calc.pc = "raised" <=>
          ~(calc.unres.lpar = "[" /\ calc.unres.rpar = "]"))
  /\ calc.pc = "checked" =>
       (calc.result <=>
          /\ calc.val.t \in {"int", "float"}
          /\ calc.val.v \in calc.dom.lower..calc.dom.upper
          /\ calc.val.v = calc.dom.lower => calc.dom.inclusive_lower
          /\ calc.val.v = calc.dom.upper => calc.dom.inclusive_upper)

\* ---------------------------------------------------------------------
\* Validation of a LaunchSpec at submit: runners/base.py 121-198,
\* runners/local.py 403-416, 891-908.  A path is absolute or relative and a
\* sequence of segments; the run directory is /r; there are no symlinks.
\* ---------------------------------------------------------------------
MaxSegs == 2

RunDirPath == <<"r">>

Segs == {"..", "a", "r"}

SpecPaths ==
  [abs : BOOLEAN, segs : UNION {[1..n -> Segs] : n \in 0..MaxSegs}]

NoPath == [abs |-> FALSE, segs |-> <<"none">>]

RECURSIVE ResolveFrom(_, _)
\* Path.resolve(): a ".." segment drops the last segment, the root has no
\* parent
ResolveFrom(at, segs) ==
  IF segs = <<>> THEN at
  ELSE IF Head(segs) = ".."
    THEN ResolveFrom(SubSeq(at, 1, Len(at) - 1), Tail(segs))
  ELSE ResolveFrom(Append(at, Head(segs)), Tail(segs))

\* run_dir / p, resolved: an absolute p replaces run_dir
ResolveUnder(p) ==
  IF p.abs THEN ResolveFrom(<<>>, p.segs) ELSE ResolveFrom(RunDirPath, p.segs)

\* base.py 121-127 _is_within
IsWithin(p) ==
  LET child == ResolveUnder(p)
  IN  /\ Len(child) >= Len(RunDirPath)
      /\ SubSeq(child, 1, Len(RunDirPath)) = RunDirPath

\* base.py 174-187: the cwd and stdout/stderr checks of validate_spec_common
ValidateSpecCommon(spec) ==
  /\ spec.cwd # NoPath => ~spec.cwd.abs
  /\ \A p \in {spec.stdout_path, spec.stderr_path} :
       p # NoPath => IsWithin(p)

VsInit ==
  \E cwd \in SpecPaths \cup {NoPath}, out \in SpecPaths \cup {NoPath},
     err \in SpecPaths \cup {NoPath} :
    calc = [pc |-> "submit",
            spec |-> [cwd |-> cwd, stdout_path |-> out, stderr_path |-> err],
            cwd_abs |-> <<>>]

\* local.py 403-416: the effective spec is validated; a ValueError leaves
\* submit before anything is queued
VsValidate ==
  /\ calc.pc = "submit"
  /\ calc' = [calc EXCEPT !.pc = IF ValidateSpecCommon(calc.spec)
                                   THEN "queued" ELSE "rejected"]
  /\ UNCHANGED <<runnerVars, mat, aw>>

\* local.py 891-908: the process is started in run_dir / spec.cwd
VsSpawn ==
  /\ calc.pc = "queued"
  /\ calc' = [calc EXCEPT
                !.cwd_abs = IF calc.spec.cwd = NoPath THEN RunDirPath
                            ELSE ResolveUnder(calc.spec.cwd),
                !.pc = "spawned"]
  /\ UNCHANGED <<runnerVars, mat, aw>>

InitVs == RunnerIdle /\ VsInit /\ mat = "off" /\ aw = "off"

NextVs == VsValidate \/ VsSpawn

SpecVs == InitVs /\ [][NextVs]_vars

\* C30: a LaunchSpec whose cwd, stdout_path or stderr_path does not resolve
\* to a location under run_dir (a relative cwd that leaves run_dir through
\* ".." included) is rejected at submit and never used to spawn a process.
C30_PathsUnderRunDir ==
  calc.pc \in {"queued", "spawned"} =>
    \A p \in {calc.spec.cwd, calc.spec.stdout_path, calc.spec.stderr_path} :
      p # NoPath => IsWithin(p)

(* ============== concurrency and liveness of the runner ================== *)

NoLock == <<"none", 0>>

\* the per-run Lock <<dir, generation>> that thread t acquires at its next
\* step: the `with lock:` blocks of local.py and the `with lock:` of
\* _append_event (line 134)
WantsRunLock(t) ==
  IF pc[t] \in {"sub_write", "sub_append"} THEN <<loc[t].d, loc[t].lk>>
  ELSE IF pc[t] \in {"spawn_write", "spawn_append", "sf_write", "sf_append"}
    THEN <<hs[loc[t].h].d, hs[loc[t].h].lk>>
  ELSE IF pc[t] \in {"mon_tevent", "mon_fwrite", "mon_fappend"}
    THEN <<Head(mon.items).d, hs[Head(mon.items).h].lk>>
  ELSE IF pc[t] \in {"fu_write", "fu_append"} THEN <<loc[t].d, loc[t].item>>
  ELSE IF pc[t] \in {"cq_write", "cq_append"}
    THEN <<loc[t].d, hs[loc[t].item].lk>>
  ELSE IF pc[t] = "ca_enter" THEN <<loc[t].d, loc[t].lk>>
  ELSE NoLock

\* thread t acquires the runner lock (self._active_lock) at its next step
WantsActiveLock(t) ==
  /\ activeLock # t
  /\ pc[t] \in {"sub_admit", "close_notify", "cancel_running", "cq_search",
                "cq_notify", "mon_top", "mon_popactive", "mon_dispatch",
                "mon_sleep", "mon_wake"}

\* C31: the runner is deadlock-free: no thread tries to acquire a per-run
\* lock (a non-reentrant threading.Lock) that it already holds, in
\* particular not through _append_event, and no thread asks for the runner
\* lock while it holds a per-run lock that a holder of the runner lock may
\* ask for; hence no thread, submit() included, blocks for ever on a lock.
C31_DeadlockFree ==
  lockKind = "plain" =>
    \A t \in Threads :
      /\ WantsRunLock(t) # NoLock
           => ~Holds(t, WantsRunLock(t)[1], WantsRunLock(t)[2])
      /\ WantsActiveLock(t) => \A d \in Dirs : ~InUpdate(t, d)

\* submit and the monitor, no close() and no cancel(); every process exits
\* on its own with code 0
NextLive ==
  \/ \E c \in Clients :
       \/ \E d \in Dirs : SubmitBegin(c, d, FALSE, MaxHandles)
       \/ SubmitStep(c)
  \/ MonitorStep
  \/ \E h \in Handles : ProcExit(h, 0)

\* the threads are scheduled fairly and every spawned process exits
FairLive ==
  /\ WF_vars(MonitorStep)
  /\ WF_vars(\E c \in Clients : SubmitStep(c))
  /\ WF_vars(\E h \in Handles : ProcExit(h, 0))

SpecLive == Init /\ [][NextLive]_vars /\ FairLive

\* C32: provided the runner is not closed and every spawned process exits,
\* every submitted run eventually has a terminal status in run.json and its
\* handle's finished event set.
C32_EventuallyTerminal ==
  \A h \in 1..MaxHandles :
    (nh >= h) ~> (hs[h].finished /\ doc[hs[h].d].state \in Terminal)

\* submit, the monitor and close()
NextStop ==
  \/ \E c \in Clients :
       \/ \E d \in Dirs : SubmitBegin(c, d, FALSE, MaxHandles)
       \/ SubmitStep(c)
       \/ CloseSet(c)
       \/ CloseNotify(c)
       \/ CloseJoin(c)
  \/ MonitorStep
  \/ \E h \in Handles : ProcExit(h, 0)

\* the threads are scheduled fairly; a process may run for ever
FairStop ==
  /\ WF_vars(MonitorStep)
  /\ WF_vars(\E c \in Clients :
               SubmitStep(c) \/ CloseNotify(c) \/ CloseJoin(c))

SpecStop == Init /\ [][NextStop]_vars /\ FairStop

\* C33: after close() has set the stop event the monitor thread eventually
\* leaves its loop, whether it was waiting on the condition without a
\* timeout, sleeping with a timeout or in the middle of a pass.
C33_MonitorStops == stopEvt ~> (pc[Mon] = "mon_done")

\* the stop event was set while the monitor waited without a timeout, and
\* the notification of close() has reached it
C33_Witness ==
  /\ stopEvt
  /\ pc[Mon] = "mon_wait" /\ ~mon.timeout /\ mon.woken
  /\ \E c \in Clients : pc[c] = "close_join"

(* ------------------- submit with an invalid LaunchSpec ------------------ *)

RejectedDocWritten(dc) == QueuedPayload(dc)

\* submit, lines 415-416: validate_spec_common raises inside `with lock:`,
\* before the payload is built and written (418-435): run.json as the
\* failed submit leaves it
RejectedDoc(dc) == dc

\* submit, lines 391-416 with a LaunchSpec that fails validation: enter the
\* lock, read run.json, raise ValueError; the with block releases the lock
\* and submit raises (no handle, no pending item)
SubmitInvalid(c) ==
  /\ pc[c] = "sub_write"
  /\ CanAcquire(c, loc[c].d, loc[c].lk)
  /\ doc' = [doc EXCEPT ![loc[c].d] = RejectedDoc(@)]
  /\ Return(c)
  /\ UNCHANGED <<libVars, lockKind, maxParallel, stopEvt, registry, lockGen, lockHeld,
                 activeLock, pending, active, hs, proc, nh, mon, hist>>

\* submit with valid and invalid specs, and the monitor
NextReject ==
  \/ \E c \in Clients :
       \/ \E d \in Dirs : SubmitBegin(c, d, FALSE, MaxHandles)
       \/ SubmitInvalid(c)
       \/ SubmitStep(c)
  \/ MonitorStep
  \/ \E h \in Handles : ProcExit(h, 0)

SpecReject == Init /\ [][NextReject]_vars

\* the submit that allocated handle h has ended without constructing it
Rejected(h) ==
  /\ h <= nh
  /\ hs[h] = NoHandle
  /\ \A c \in Clients : ~(loc[c].op = "submit" /\ loc[c].h = h)

OnlyHandleOfDir(h) ==
  \A g \in 1..nh : g # h => hs[g].d # hs[h].d

InitWide == RunnerInit /\ maxParallel = MaxParallel + 1 /\ LibIdle

\* submit (resubmission of a run directory included) and the monitor
NextWide ==
  \/ \E c \in Clients :
       \/ \E d \in Dirs : SubmitBegin(c, d, FALSE, MaxHandlesQ)
       \/ SubmitStep(c)
  \/ MonitorStep
  \/ \E h \in Handles : ProcExit(h, 0)

SpecWide == InitWide /\ [][NextWide]_vars

MetaDir == "_tl"

\* plan.py 58: the directory named by the default exclude pattern,
\* "." + RUN_METADATA_DIR + "/**"
DefaultExcludeDir == "._tl"

\* the directory part of a relative path
DirOf(f) == IF f \in {MetaInputs, MetaFiles} THEN MetaDir ELSE "d"

ProtoFiles == MatFiles \cup {MetaInputs, MetaFiles}

\* the paths that pass include "**/*" and the default exclude globs
DefaultIncl == {f \in ProtoFiles : DirOf(f) # DefaultExcludeDir}

MatInitDefault ==
  mat \in [pc : {"start"}, proto : SUBSET ProtoFiles,
           targets : SUBSET MatFiles, incl : {DefaultIncl},
           indexCopied : BOOLEAN, badSubs : BOOLEAN,
           pre : {FALSE}, tmp : {NoDir}, final : {NoDir},
           records : {<<>>}, at : {"none"}]

InitMatDefault == RunnerIdle /\ MatInitDefault /\ aw = "off" /\ calc = "off"

NextMatDefault ==
  \/ MatBegin
  \/ \E f \in ProtoFiles : MatCopy(f)
  \/ MatCopyDone
  \/ \E t \in MatFiles : MatRender(t)
  \/ MatFinalize
  \/ MatWriteInputs
  \/ MatIndex
  \/ MatWriteFiles
  \/ MatFail

SpecMatDefault == InitMatDefault /\ [][NextMatDefault]_vars

\* C40: files.json is the last thing Materializer.run puts into a run
\* directory: whenever _tl/files.json exists there, _tl/inputs.json exists
\* and every render target is in place.
C40_FilesJsonLast ==
  (mat.final.exists /\ MetaFiles \in mat.final.files)
    => /\ MetaInputs \in mat.final.files
       /\ mat.targets \subseteq mat.final.files
====
